---------------------------- MODULE Spec2Model ----------------------------
(***************************************************************************)
(* A model of the AI chat sidebar plugin:                                  *)
(*   - AIServiceClient.makeRequest     (retry / classification)            *)
(*   - AIServiceClient.handleStreamResponse (SSE parsing)                  *)
(*   - ChatStateManager                (session store)                     *)
(*   - SettingsManager                 (registry of providers and models)  *)
(*   - LiveSelectionManager            (the live selection slot)           *)
(*   - AIChatSidebarPlugin             (the send handlers, the saves)      *)
(*   - exportState / loadState between two ChatStateManagers               *)
(*   - AIServiceClient.formatRequest and handleResponse                    *)
(*   - LiveSelectionManager.getPreview                                     *)
(*   - ContextManager.addFolder                                            *)
(* Each component has its own specification (SpecReq, SpecStream,          *)
(* SpecChat, SpecSettings, SpecLive, SpecPlugin, SpecShare, SpecFormat,    *)
(* SpecSend, SpecPreview, SpecFolder, ...); the variables of the           *)
(* components a specification does not use stay at their initial values.   *)
(***************************************************************************)
EXTENDS Integers, Sequences, FiniteSets, TLC

VARIABLES
  \* ---- AIServiceClient.makeRequest
  reqPc,        \* position of the call: idle, loop, fetch, delay, returned, thrown
  attempt,      \* the loop variable `attempt`
  lastError,    \* the local `lastError`
  fetchCount,   \* number of fetch() calls issued by the current call
  fetchLog,     \* outcomes of the fetch calls of the current call, in order
  delayLog,     \* arguments of the delay() calls of the current call, in order
  reqResult,    \* what the call returned (a response) or threw (an APIError)
  \* ---- AIServiceClient.handleStreamResponse
  stream,       \* the characters the upstream delivers before it closes the body
  pos,          \* how many of them reader.read() has delivered so far
  buffer,       \* the local `buffer`
  emitted,      \* the arguments of the onChunk calls so far, in order
  strPc,        \* reading, returned (on [DONE]), closed (after the flush)
  heldBack,     \* some read ended inside a line (a partial line was held back)
  released,     \* reader.releaseLock() was called
  releaseCount, \* how many times reader.releaseLock() was called
  \* ---- ChatStateManager
  sessions,          \* this.sessions
  currentSessionId,  \* this.currentSessionId (NoId for null)
  now,               \* the value Date.now() returns
  nextSessionId,     \* the next id generateId() gives a session
  nextItemId,        \* the next id given to a message or a context item
  opsLeft,           \* how many more calls other than createSession are explored
  ret,               \* whether the last call returned a session, a message or true
                     \* (TRUE), or null or false (FALSE)
  call,              \* the last call: its name and the session id it was given
                     \* (createSession: the id of the session it returned)
  \* ---- SettingsManager
  providers,         \* this.settings.providers
  models,            \* this.settings.models
  nextSettingsId,    \* the next id generateId() gives a provider or a model
  settingsOpsLeft,   \* how many more calls are explored
  settingsRet,       \* whether the last call returned success: true (or true)
  settingsCall,      \* the last call: its name and the id it was given
  \* ---- LiveSelectionManager
  currentSelection,  \* this.currentSelection (NoSelection for null)
  onChangeCallback,  \* whether this.onChangeCallback is set
  notifyCount,       \* how many times the change callback was invoked
  liveOpsLeft,       \* how many more calls are explored
  liveCall,          \* the last call: its name and the content it was given
  \* ---- AIChatSidebarPlugin
  ctxItems,            \* the items of the ContextManager, in insertion order
  lastKnownSelection,  \* whether this.lastKnownSelection is set
  sends,               \* the calls of handleSendMessage / handleSendMessageStream
  savedData,           \* the blobs handed to saveData: none, or the last one
  sidebarWasOpen,      \* this.sidebarWasOpen
  \* ---- two ChatStateManagers and an exported state
  heap,          \* the session objects, by id
  managers,      \* of each manager: this.sessions (the ids of the objects its
                 \* array holds, in order) and this.currentSessionId
  exportedState,      \* the value exportState() returned: the ids of the objects
                 \* its array holds, and currentSessionId
  shareOpsLeft,  \* how many more calls are explored
  shareCall,     \* the last call: its name, its manager, the id it was given
  \* ---- AIServiceClient.formatRequest
  fmtInput,      \* the arguments of the call: provider.type, messages,
                 \* contextItems, stream
  fmtBody,       \* the request body it returned (NoBody before it returns)
  \* ---- AIServiceClient.sendMessage
  responseBody,  \* the body of the response handleResponse was handed
  sendResult,    \* what sendMessage returned (a text) or threw (an error)
  \* ---- LiveSelectionManager.getPreview
  preview,       \* the last call of getPreview: its argument and its result
  \* ---- ContextManager.addFolder
  vault,         \* the root folder of the vault the FileSystemAdapter reads
  folderCall,    \* the call of addFolder: where it is, its path, the files it
                 \* collected, the reads that settled, addedItems, what it
                 \* returned
  folderOpsLeft  \* how many more calls are explored

reqVars == <<reqPc, attempt, lastError, fetchCount, fetchLog, delayLog, reqResult>>

streamVars == <<stream, pos, buffer, emitted, strPc, heldBack, released, releaseCount>>

chatVars ==
  <<sessions, currentSessionId, now, nextSessionId, nextItemId, opsLeft, ret, call>>

settingsVars ==
  <<providers, models, nextSettingsId, settingsOpsLeft, settingsRet, settingsCall>>

liveVars == <<currentSelection, onChangeCallback, notifyCount, liveOpsLeft, liveCall>>

pluginVars == <<ctxItems, lastKnownSelection, sends, savedData, sidebarWasOpen>>

shareVars == <<heap, managers, exportedState, shareOpsLeft, shareCall>>

\* The variables of the operations that are explored on their own.
formatVars == <<fmtInput, fmtBody>>

sendVars == <<responseBody, sendResult>>

previewVars == <<preview>>

folderVars == <<vault, folderCall, folderOpsLeft>>

unitVars == <<shareVars, formatVars, sendVars, previewVars, folderVars>>

vars == <<reqVars, streamVars, chatVars, settingsVars, liveVars, pluginVars, unitVars>>

-----------------------------------------------------------------------------
(***************************************************************************)
(* AIServiceClient.makeRequest                                             *)
(***************************************************************************)

MAX_RETRIES_OneMore == 4

MAX_RETRIES == 3

BACKOFF_DELAYS == <<1000, 2000, 4000>>

\* HTTP statuses a provider may answer with.
Statuses == {200, 201, 400, 401, 403, 404, 429, 500, 503}

\* What one fetch() can settle to: a Response of some status, or a rejection
\* (AbortError when the timeout timer aborted the call, TypeError for a
\* transport failure).
Response(s) == [kind |-> "response", status |-> s, name |-> "Response"]

Rejection(n) == [kind |-> "rejection", status |-> 0, name |-> n]

FetchOutcomes ==
  {Response(s) : s \in Statuses} \cup {Rejection(n) : n \in {"AbortError", "TypeError"}}

\* An APIError value; NoError is `null`.
APIError(t, s) == [type |-> t, statusCode |-> s]

NoError == APIError("null", 0)

APIErrorTypes == {"auth", "rate_limit", "network", "server", "timeout", "unknown"}

\* Response.ok
Ok(status) == status >= 200 /\ status <= 299

ClassifyError_No403(statusCode) ==
  IF statusCode = 401 THEN APIError("auth", statusCode)
  ELSE IF statusCode = 429 THEN APIError("rate_limit", statusCode)
  ELSE IF statusCode >= 500 THEN APIError("server", statusCode)
  ELSE APIError("unknown", statusCode)

ClassifyError(statusCode) ==
  IF statusCode = 401 \/ statusCode = 403 THEN APIError("auth", statusCode)
  ELSE IF statusCode = 429 THEN APIError("rate_limit", statusCode)
  ELSE IF statusCode >= 500 THEN APIError("server", statusCode)
  ELSE APIError("unknown", statusCode)

\* throw error: the call ends, nothing else changes.
Throw(error) ==
  /\ reqPc' = "thrown"
  /\ reqResult' = [kind |-> "error", status |-> error.statusCode, type |-> error.type]
  /\ UNCHANGED <<attempt, delayLog>>

Delay_FirstEachTime ==
  /\ reqPc' = "delay"
  /\ delayLog' = Append(delayLog, BACKOFF_DELAYS[1])
  /\ UNCHANGED <<attempt, reqResult>>

\* await this.delay(this.BACKOFF_DELAYS[attempt])
Delay ==
  /\ reqPc' = "delay"
  /\ delayLog' = Append(delayLog, BACKOFF_DELAYS[attempt + 1])
  /\ UNCHANGED <<attempt, reqResult>>

\* if (!response.ok) { ... }
OnNotOk(response) ==
  LET error == ClassifyError(response.status) IN
  /\ lastError' = error
  /\ IF error.type = "auth" THEN Throw(error)
     ELSE IF error.type = "rate_limit" THEN Throw(error)
     ELSE IF attempt = MAX_RETRIES - 1 THEN Throw(error)
     ELSE Delay

OnCatch_NoRetry(rejection) ==
  LET error == IF rejection.name = "AbortError"
               THEN APIError("timeout", 0)
               ELSE APIError("network", 0) IN
  /\ lastError' = error
  /\ Throw(error)

OnCatch_KeepFirst(rejection) ==
  LET error == IF rejection.name = "AbortError"
               THEN APIError("timeout", 0)
               ELSE APIError("network", 0)
      kept == IF lastError = NoError THEN error ELSE lastError IN
  /\ lastError' = kept
  /\ IF attempt = MAX_RETRIES - 1 THEN Throw(kept) ELSE Delay

\* catch (error) { ... } for an error that is no APIError
OnCatch(rejection) ==
  LET error == IF rejection.name = "AbortError"
               THEN APIError("timeout", 0)
               ELSE APIError("network", 0) IN
  /\ lastError' = error
  /\ IF attempt = MAX_RETRIES - 1 THEN Throw(error) ELSE Delay

\* A caller (sendMessage, sendMessageStream) calls makeRequest.
MakeRequest ==
  /\ reqPc \in {"idle", "returned", "thrown"}
  /\ reqPc' = "loop"
  /\ attempt' = 0
  /\ lastError' = NoError
  /\ fetchCount' = 0
  /\ fetchLog' = <<>>
  /\ delayLog' = <<>>
  /\ reqResult' = [kind |-> "none", status |-> 0, type |-> "null"]

\* for (...; attempt < this.MAX_RETRIES; ...): either the body starts and
\* issues the fetch, or the loop is left and line 285 throws.
LoopTest ==
  /\ reqPc = "loop"
  /\ IF attempt < MAX_RETRIES
     THEN /\ reqPc' = "fetch"
          /\ fetchCount' = fetchCount + 1
          /\ UNCHANGED <<attempt, lastError, fetchLog, delayLog, reqResult>>
     ELSE /\ Throw(IF lastError # NoError THEN lastError ELSE APIError("unknown", 0))
          /\ UNCHANGED <<lastError, fetchCount, fetchLog>>

\* The awaited fetch settles; the code runs up to its next await or its end.
FetchSettles(o) ==
  /\ reqPc = "fetch"
  /\ fetchLog' = Append(fetchLog, o)
  /\ UNCHANGED fetchCount
  /\ IF o.kind = "response"
     THEN IF Ok(o.status)
          THEN /\ reqPc' = "returned"
               /\ reqResult' = [kind |-> "response", status |-> o.status, type |-> "null"]
               /\ UNCHANGED <<attempt, lastError, delayLog>>
          ELSE OnNotOk(o)
     ELSE OnCatch(o)

\* The backoff timer fires: `continue` / the end of the catch block, attempt++.
DelayElapses ==
  /\ reqPc = "delay"
  /\ reqPc' = "loop"
  /\ attempt' = attempt + 1
  /\ UNCHANGED <<lastError, fetchCount, fetchLog, delayLog, reqResult>>

ReqInit ==
  /\ reqPc = "idle"
  /\ attempt = 0
  /\ lastError = NoError
  /\ fetchCount = 0
  /\ fetchLog = <<>>
  /\ delayLog = <<>>
  /\ reqResult = [kind |-> "none", status |-> 0, type |-> "null"]

-----------------------------------------------------------------------------
(***************************************************************************)
(* AIServiceClient.handleStreamResponse                                    *)
(*                                                                         *)
(* Text is a sequence of one-character strings.  A JSON payload is written *)
(* in a short form that keeps what the parser distinguishes:               *)
(*   {   C   H e l   }   for {"choices":[{"delta":{"content":"Hel"}}]}     *)
(*   {   T   l o     }   for {"delta":{"text":"lo"}}                       *)
(*   {   }               for a JSON object with neither field              *)
(* ("C" and "T" stand for the field path up to the opening quote of the    *)
(* text, "}" for everything from its closing quote on).  Any other text,   *)
(* in particular any proper prefix of a payload, fails to parse.           *)
(***************************************************************************)

NL == "\n"

SP == " "

Whitespace == {" ", "\t", "\r"}

Letters == {"H", "e", "l", "o"}

DataPrefix == <<"d", "a", "t", "a", ":", " ">>

DoneToken == <<"[", "D", "O", "N", "E", "]">>

RECURSIVE TrimLeft(_)
TrimLeft(s) ==
  IF s # <<>> /\ Head(s) \in Whitespace THEN TrimLeft(Tail(s)) ELSE s

RECURSIVE TrimRight(_)
TrimRight(s) ==
  IF s # <<>> /\ s[Len(s)] \in Whitespace
  THEN TrimRight(SubSeq(s, 1, Len(s) - 1))
  ELSE s

\* String.prototype.trim
Trim(s) == TrimRight(TrimLeft(s))

\* String.prototype.startsWith
StartsWith(s, prefix) ==
  Len(s) >= Len(prefix) /\ SubSeq(s, 1, Len(prefix)) = prefix

\* String.prototype.slice(n)
Slice(s, n) == SubSeq(s, n + 1, Len(s))

RECURSIVE SplitFrom(_, _, _, _)
SplitFrom(s, i, cur, acc) ==
  IF i > Len(s) THEN Append(acc, cur)
  ELSE IF s[i] = NL THEN SplitFrom(s, i + 1, <<>>, Append(acc, cur))
  ELSE SplitFrom(s, i + 1, Append(cur, s[i]), acc)

\* String.prototype.split('\n'): k newlines give k + 1 pieces.
Split(s) == SplitFrom(s, 1, <<>>, <<>>)

\* TextDecoder.decode(value, {stream: true}): the characters of the model are
\* single-byte, so a chunk decodes to its own characters.
Decode(value) == value

\* JSON.parse of the short form: [ok, kind, text]; ok = FALSE when it throws.
\* JSON.parse skips white space around the document.
JSONParse(data) ==
  LET d == Trim(data) IN
  IF Len(d) >= 2 /\ d[1] = "{" /\ d[Len(d)] = "}"
  THEN IF Len(d) = 2
       THEN [ok |-> TRUE, kind |-> "other", text |-> <<>>]
       ELSE IF /\ d[2] \in {"C", "T"}
               /\ \A i \in 3..(Len(d) - 1) : d[i] \in Letters
            THEN [ok |-> TRUE,
                  kind |-> IF d[2] = "C" THEN "openai" ELSE "anthropic",
                  text |-> SubSeq(d, 3, Len(d) - 1)]
            ELSE [ok |-> FALSE, kind |-> "none", text |-> <<>>]
  ELSE [ok |-> FALSE, kind |-> "none", text |-> <<>>]

\* extractStreamContent: choices[0].delta.content, else delta.text, else ''.
ExtractStreamContent(parsed) ==
  IF parsed.kind = "openai" /\ parsed.text # <<>> THEN parsed.text
  ELSE IF parsed.kind = "anthropic" /\ parsed.text # <<>> THEN parsed.text
  ELSE <<>>

EmitData_MalformedAsText(data, out) ==
  LET parsed == JSONParse(data) IN
  IF parsed.ok
  THEN LET content == ExtractStreamContent(parsed) IN
       IF content # <<>> THEN Append(out, content) ELSE out
  ELSE Append(out, data)

\* try { parse; extract; if (content) onChunk(content) } catch { skip }:
\* the onChunk calls one payload adds to `out`.
EmitData(data, out) ==
  LET parsed == JSONParse(data) IN
  IF parsed.ok
  THEN LET content == ExtractStreamContent(parsed) IN
       IF content # <<>> THEN Append(out, content) ELSE out
  ELSE out

RECURSIVE ProcessLines_IgnoreDone(_, _, _)
ProcessLines_IgnoreDone(lines, i, out) ==
  IF i > Len(lines) - 1 THEN [out |-> out, done |-> FALSE]
  ELSE LET line == Trim(lines[i]) IN
       IF line = <<>> THEN ProcessLines_IgnoreDone(lines, i + 1, out)
       ELSE IF StartsWith(line, DataPrefix)
       THEN LET data == Slice(line, 6) IN
            IF data = DoneToken THEN ProcessLines_IgnoreDone(lines, i + 1, out)
            ELSE ProcessLines_IgnoreDone(lines, i + 1, EmitData(data, out))
       ELSE ProcessLines_IgnoreDone(lines, i + 1, out)

\* for (let i = 0; i < lines.length - 1; i++) { ... }: the onChunk calls made
\* and whether the loop ended by `return` on [DONE].
RECURSIVE ProcessLines(_, _, _)
ProcessLines(lines, i, out) ==
  IF i > Len(lines) - 1 THEN [out |-> out, done |-> FALSE]
  ELSE LET line == Trim(lines[i]) IN
       IF line = <<>> THEN ProcessLines(lines, i + 1, out)
       ELSE IF StartsWith(line, DataPrefix)
       THEN LET data == Slice(line, 6) IN
            IF data = DoneToken THEN [out |-> out, done |-> TRUE]
            ELSE ProcessLines(lines, i + 1, EmitData(data, out))
       ELSE ProcessLines(lines, i + 1, out)

HoldBack_Dropped(lines) == <<>>

\* buffer = lines[lines.length - 1]
HoldBack(lines) == lines[Len(lines)]

Flush_Skipped(buf, out) == out

\* "Process any remaining buffer" after the read loop.
Flush(buf, out) ==
  IF StartsWith(Trim(buf), DataPrefix)
  THEN LET data == Slice(Trim(buf), 6) IN
       IF data # DoneToken THEN EmitData(data, out) ELSE out
  ELSE out

\* reader.read() resolves with the next n characters; the loop body runs.
ReadChunk(n) ==
  /\ strPc = "reading"
  /\ pos + n <= Len(stream)
  /\ LET value == SubSeq(stream, pos + 1, pos + n)
         lines == Split(buffer \o Decode(value))
         r     == ProcessLines(lines, 1, emitted)
     IN /\ buffer' = HoldBack(lines)
        /\ emitted' = r.out
        /\ strPc' = IF r.done THEN "returned" ELSE "reading"
        /\ released' = r.done
        /\ releaseCount' = IF r.done THEN releaseCount + 1 ELSE releaseCount
        /\ heldBack' = (heldBack \/ HoldBack(lines) # <<>>)
  /\ pos' = pos + n
  /\ UNCHANGED stream

\* A variant whose finally block is missing on the path of a closed body.
ReadDone_NoRelease ==
  /\ strPc = "reading"
  /\ pos = Len(stream)
  /\ emitted' = Flush(buffer, emitted)
  /\ strPc' = "closed"
  /\ UNCHANGED <<stream, pos, buffer, heldBack, released, releaseCount>>

\* reader.read() resolves with done = true: the loop breaks, the rest of the
\* buffer is flushed, finally releases the lock.
ReadDone ==
  /\ strPc = "reading"
  /\ pos = Len(stream)
  /\ emitted' = Flush(buffer, emitted)
  /\ strPc' = "closed"
  /\ released' = TRUE
  /\ releaseCount' = releaseCount + 1
  /\ UNCHANGED <<stream, pos, buffer, heldBack>>

\* reader.read() rejects (the connection broke, the timeout aborted the
\* call): the error leaves the loop through finally, which releases the
\* lock, and handleStreamResponse rejects with it.
ReadThrows ==
  /\ strPc = "reading"
  /\ strPc' = "thrown"
  /\ released' = TRUE
  /\ releaseCount' = releaseCount + 1
  /\ UNCHANGED <<stream, pos, buffer, emitted, heldBack>>

\* ---- the streams explored

MaxPieces == 3

MaxChunk == 26

Frame(marker, text) == DataPrefix \o <<"{", marker>> \o text \o <<"}">>

\* What the explored streams are put together from: a content frame with its
\* newline, a content frame and a [DONE] frame without one (a newline may
\* follow as the next piece), a newline, a space.
Pieces ==
  { Frame("C", <<"H">>) \o <<NL>>,
    Frame("T", <<"l", "o">>),
    DataPrefix \o DoneToken,
    <<NL>>,
    <<SP>> }

RECURSIVE Concat(_)
Concat(ps) == IF ps = <<>> THEN <<>> ELSE Head(ps) \o Concat(Tail(ps))

\* The example of the spec: two content frames and [DONE], each followed by a
\* blank line.
SpecExample ==
  Frame("C", <<"H", "e", "l">>) \o <<NL, NL>> \o
  Frame("C", <<"l", "o">>) \o <<NL, NL>> \o
  DataPrefix \o DoneToken \o <<NL, NL>>

\* Longer streams: frames on both sides of [DONE]; a frame cut short, an
\* object without text and a comment line between two frames, the last frame
\* without its newline.
LongStreams ==
  { Frame("C", <<"H">>) \o <<NL>> \o DataPrefix \o DoneToken \o <<NL>> \o
      Frame("T", <<"l", "o">>) \o <<NL>> \o Frame("C", <<"H">>),
    Frame("T", <<"l">>) \o <<NL>> \o DataPrefix \o <<"{", "C", "H", NL>> \o
      DataPrefix \o <<"{", "}", NL>> \o <<":", SP, "H", NL>> \o
      Frame("C", <<"o">>) }

Streams ==
  {SpecExample} \cup LongStreams \cup
  UNION { {Concat(ps) : ps \in [1..k -> Pieces]} : k \in 0..MaxPieces }

StreamInit ==
  /\ stream \in Streams
  /\ pos = 0
  /\ buffer = <<>>
  /\ emitted = <<>>
  /\ strPc = "reading"
  /\ heldBack = FALSE
  /\ released = FALSE
  /\ releaseCount = 0

\* No stream is being read (the other components' specifications).
StreamIdle ==
  /\ stream = <<>>
  /\ pos = 0
  /\ buffer = <<>>
  /\ emitted = <<>>
  /\ strPc = "idle"
  /\ heldBack = FALSE
  /\ released = FALSE
  /\ releaseCount = 0

-----------------------------------------------------------------------------
(***************************************************************************)
(* ChatStateManager                                                        *)
(*                                                                         *)
(* Ids are numbers: generateId() gives a fresh one on each call.  NoId is  *)
(* null.  Date.now() is the variable `now`; it may advance between two     *)
(* reads inside one call.                                                  *)
(***************************************************************************)

MAX_SESSIONS == 10

NoId == 0

\* An id that no session of the store ever has.
UnknownId == 999

MaxClock == 2

MaxSessionIds == 11

MaxOps == 1

MaxDeepOps == 2

MaxDeepSessions == 2

ModelIds == {"m1", "m2"}

MessageInputs ==
  { [role |-> "user", content |-> "question"],
    [role |-> "assistant", content |-> "answer"] }

\* The values a second Date.now() of the same call may return.
Later(t) == IF t < MaxClock THEN {t, t + 1} ELSE {t}

Ids(ss) == {ss[i].id : i \in 1..Len(ss)}

\* this.sessions.findIndex(s => s.id === id), 1-based; 0 for -1
FindIndex(ss, id) ==
  IF \E i \in 1..Len(ss) : ss[i].id = id
  THEN CHOOSE i \in 1..Len(ss) :
         ss[i].id = id /\ \A j \in 1..(i - 1) : ss[j].id # id
  ELSE 0

\* The session of the store with the given id.
SessionOf(ss, id) == ss[FindIndex(ss, id)]

\* Array.prototype.splice(index, 1)
RemoveAt(seq, i) == SubSeq(seq, 1, i - 1) \o SubSeq(seq, i + 1, Len(seq))

\* One step of a stable sort by updatedAt descending: x goes behind every
\* element that does not compare after it.
RECURSIVE InsertDesc(_, _)
InsertDesc(sorted, x) ==
  IF sorted = <<>> THEN <<x>>
  ELSE IF Head(sorted).updatedAt >= x.updatedAt
       THEN <<Head(sorted)>> \o InsertDesc(Tail(sorted), x)
       ELSE <<x>> \o sorted

SortByUpdatedAtDesc_Unsorted(ss) == ss

\* this.sessions.sort((a, b) => b.updatedAt - a.updatedAt): Array.prototype.sort
\* is stable.
RECURSIVE SortByUpdatedAtDesc(_)
SortByUpdatedAtDesc(ss) ==
  IF ss = <<>> THEN <<>>
  ELSE InsertDesc(SortByUpdatedAtDesc(SubSeq(ss, 1, Len(ss) - 1)), ss[Len(ss)])

\* pruneSessions(): the session list and the current pointer it leaves.
PruneSessions(ss, cur) ==
  IF Len(ss) > MAX_SESSIONS
  THEN LET kept == SubSeq(SortByUpdatedAtDesc(ss), 1, MAX_SESSIONS) IN
       [sessions |-> kept,
        current  |-> IF cur # NoId /\ cur \notin Ids(kept)
                     THEN (IF Len(kept) > 0 THEN kept[1].id ELSE NoId)
                     ELSE cur]
  ELSE [sessions |-> ss, current |-> cur]

\* createSession(modelId)
CreateSession(modelId) ==
  /\ nextSessionId <= MaxSessionIds
  /\ \E t2 \in Later(now) :
       LET session == [id |-> nextSessionId,
                       messages |-> <<>>,
                       contextItems |-> <<>>,
                       currentModelId |-> modelId,
                       createdAt |-> now,
                       updatedAt |-> t2]
           pruned == PruneSessions(Append(sessions, session), session.id)
       IN /\ sessions' = pruned.sessions
          /\ currentSessionId' = pruned.current
          /\ now' = t2
          /\ ret' = TRUE
  /\ call' = [op |-> "createSession", id |-> nextSessionId]
  /\ nextSessionId' = nextSessionId + 1
  /\ UNCHANGED <<nextItemId, opsLeft>>

\* switchSession(sessionId)
SwitchSession(sessionId) ==
  /\ opsLeft > 0
  /\ IF FindIndex(sessions, sessionId) = 0
     THEN /\ ret' = FALSE
          /\ UNCHANGED currentSessionId
     ELSE /\ currentSessionId' = sessionId
          /\ ret' = TRUE
  /\ call' = [op |-> "switchSession", id |-> sessionId]
  /\ opsLeft' = opsLeft - 1
  /\ UNCHANGED <<sessions, now, nextSessionId, nextItemId>>

\* clearSession that leaves updatedAt as it was.
ClearSession_NoBump(sessionId) ==
  LET i == FindIndex(sessions, sessionId) IN
  /\ opsLeft > 0
  /\ IF i = 0
     THEN /\ ret' = FALSE
          /\ UNCHANGED sessions
     ELSE /\ sessions' = [sessions EXCEPT ![i].messages = <<>>]
          /\ ret' = TRUE
  /\ call' = [op |-> "clearSession", id |-> sessionId]
  /\ opsLeft' = opsLeft - 1
  /\ UNCHANGED <<currentSessionId, now, nextSessionId, nextItemId>>

\* clearSession(sessionId)
ClearSession(sessionId) ==
  LET i == FindIndex(sessions, sessionId) IN
  /\ opsLeft > 0
  /\ IF i = 0
     THEN /\ ret' = FALSE
          /\ UNCHANGED sessions
     ELSE /\ sessions' = [sessions EXCEPT ![i].messages = <<>>, ![i].updatedAt = now]
          /\ ret' = TRUE
  /\ call' = [op |-> "clearSession", id |-> sessionId]
  /\ opsLeft' = opsLeft - 1
  /\ UNCHANGED <<currentSessionId, now, nextSessionId, nextItemId>>

\* deleteSession(sessionId)
DeleteSession(sessionId) ==
  LET index == FindIndex(sessions, sessionId) IN
  /\ opsLeft > 0
  /\ IF index = 0
     THEN /\ ret' = FALSE
          /\ UNCHANGED <<sessions, currentSessionId>>
     ELSE LET rest == RemoveAt(sessions, index) IN
          /\ sessions' = rest
          /\ currentSessionId' =
               IF currentSessionId = sessionId
               THEN (IF Len(rest) > 0 THEN rest[Len(rest)].id ELSE NoId)
               ELSE currentSessionId
          /\ ret' = TRUE
  /\ call' = [op |-> "deleteSession", id |-> sessionId]
  /\ opsLeft' = opsLeft - 1
  /\ UNCHANGED <<now, nextSessionId, nextItemId>>

\* addMessage that appends to the current session when the id is unknown.
AddMessage_Fallback(sessionId, message) ==
  LET i == IF FindIndex(sessions, sessionId) = 0
           THEN FindIndex(sessions, currentSessionId)
           ELSE FindIndex(sessions, sessionId) IN
  /\ opsLeft > 0
  /\ IF i = 0
     THEN /\ ret' = FALSE
          /\ UNCHANGED <<sessions, now, nextItemId>>
     ELSE /\ \E t2 \in Later(now) :
               LET newMessage == [id |-> nextItemId,
                                  role |-> message.role,
                                  content |-> message.content,
                                  timestamp |-> now]
               IN /\ sessions' = [sessions EXCEPT
                                    ![i].messages = Append(@, newMessage),
                                    ![i].updatedAt = t2]
                  /\ now' = t2
          /\ nextItemId' = nextItemId + 1
          /\ ret' = TRUE
  /\ call' = [op |-> "addMessage", id |-> sessionId]
  /\ opsLeft' = opsLeft - 1
  /\ UNCHANGED <<currentSessionId, nextSessionId>>

AddMessage_Prepend(sessionId, message) ==
  LET i == FindIndex(sessions, sessionId) IN
  /\ opsLeft > 0
  /\ IF i = 0
     THEN /\ ret' = FALSE
          /\ UNCHANGED <<sessions, now, nextItemId>>
     ELSE /\ \E t2 \in Later(now) :
               LET newMessage == [id |-> nextItemId,
                                  role |-> message.role,
                                  content |-> message.content,
                                  timestamp |-> now]
               IN /\ sessions' = [sessions EXCEPT
                                    ![i].messages = <<newMessage>> \o @,
                                    ![i].updatedAt = t2]
                  /\ now' = t2
          /\ nextItemId' = nextItemId + 1
          /\ ret' = TRUE
  /\ call' = [op |-> "addMessage", id |-> sessionId]
  /\ opsLeft' = opsLeft - 1
  /\ UNCHANGED <<currentSessionId, nextSessionId>>

\* addMessage(sessionId, message)
AddMessage(sessionId, message) ==
  LET i == FindIndex(sessions, sessionId) IN
  /\ opsLeft > 0
  /\ IF i = 0
     THEN /\ ret' = FALSE
          /\ UNCHANGED <<sessions, now, nextItemId>>
     ELSE /\ \E t2 \in Later(now) :
               LET newMessage == [id |-> nextItemId,
                                  role |-> message.role,
                                  content |-> message.content,
                                  timestamp |-> now]
               IN /\ sessions' = [sessions EXCEPT
                                    ![i].messages = Append(@, newMessage),
                                    ![i].updatedAt = t2]
                  /\ now' = t2
          /\ nextItemId' = nextItemId + 1
          /\ ret' = TRUE
  /\ call' = [op |-> "addMessage", id |-> sessionId]
  /\ opsLeft' = opsLeft - 1
  /\ UNCHANGED <<currentSessionId, nextSessionId>>

\* addContextItem(sessionId, contextItem); the caller made the item and its id.
AddContextItem(sessionId) ==
  LET i == FindIndex(sessions, sessionId) IN
  /\ opsLeft > 0
  /\ IF i = 0
     THEN /\ ret' = FALSE
          /\ UNCHANGED <<sessions, nextItemId>>
     ELSE /\ sessions' = [sessions EXCEPT
                            ![i].contextItems = Append(@, [id |-> nextItemId, type |-> "file"]),
                            ![i].updatedAt = now]
          /\ nextItemId' = nextItemId + 1
          /\ ret' = TRUE
  /\ call' = [op |-> "addContextItem", id |-> sessionId]
  /\ opsLeft' = opsLeft - 1
  /\ UNCHANGED <<currentSessionId, now, nextSessionId>>

\* removeContextItem(sessionId, contextItemId)
RemoveContextItem(sessionId, contextItemId) ==
  LET i == FindIndex(sessions, sessionId)
      index == IF i = 0 THEN 0 ELSE FindIndex(sessions[i].contextItems, contextItemId)
  IN
  /\ opsLeft > 0
  /\ IF i = 0 \/ index = 0
     THEN /\ ret' = FALSE
          /\ UNCHANGED sessions
     ELSE /\ sessions' = [sessions EXCEPT
                            ![i].contextItems = RemoveAt(@, index),
                            ![i].updatedAt = now]
          /\ ret' = TRUE
  /\ call' = [op |-> "removeContextItem", id |-> sessionId]
  /\ opsLeft' = opsLeft - 1
  /\ UNCHANGED <<currentSessionId, now, nextSessionId, nextItemId>>

\* setSessionModel(sessionId, modelId)
SetSessionModel(sessionId, modelId) ==
  LET i == FindIndex(sessions, sessionId) IN
  /\ opsLeft > 0
  /\ IF i = 0
     THEN /\ ret' = FALSE
          /\ UNCHANGED sessions
     ELSE /\ sessions' = [sessions EXCEPT ![i].currentModelId = modelId, ![i].updatedAt = now]
          /\ ret' = TRUE
  /\ call' = [op |-> "setSessionModel", id |-> sessionId]
  /\ opsLeft' = opsLeft - 1
  /\ UNCHANGED <<currentSessionId, now, nextSessionId, nextItemId>>

\* A sort step that puts x before the elements of its timestamp.
RECURSIVE InsertAsc_BeforeEqual(_, _)
InsertAsc_BeforeEqual(sorted, x) ==
  IF sorted = <<>> THEN <<x>>
  ELSE IF Head(sorted).timestamp < x.timestamp
       THEN <<Head(sorted)>> \o InsertAsc_BeforeEqual(Tail(sorted), x)
       ELSE <<x>> \o sorted

\* One step of a stable sort by timestamp ascending: x goes behind every
\* element that does not compare after it.
RECURSIVE InsertAsc(_, _)
InsertAsc(sorted, x) ==
  IF sorted = <<>> THEN <<x>>
  ELSE IF Head(sorted).timestamp <= x.timestamp
       THEN <<Head(sorted)>> \o InsertAsc(Tail(sorted), x)
       ELSE <<x>> \o sorted

\* messages.sort((a, b) => a.timestamp - b.timestamp): Array.prototype.sort is
\* stable.
RECURSIVE SortByTimestamp(_)
SortByTimestamp(ms) ==
  IF ms = <<>> THEN <<>>
  ELSE InsertAsc(SortByTimestamp(SubSeq(ms, 1, Len(ms) - 1)), ms[Len(ms)])

\* getMessages(sessionId) on the store ss: the array returned and the store the
\* call leaves.  The sort runs on the spread copy [...session.messages].
GetMessages(ss, sessionId) ==
  LET i == FindIndex(ss, sessionId) IN
  IF i = 0
  THEN [result |-> <<>>, sessions |-> ss]
  ELSE LET copy == ss[i].messages IN
       [result |-> SortByTimestamp(copy), sessions |-> ss]

\* A session as found in saved plugin data: made by an earlier run, at time 0.
SavedSession(i) ==
  [id |-> 100 + i,
   messages |-> <<>>,
   contextItems |-> <<>>,
   currentModelId |-> "m1",
   createdAt |-> 0,
   updatedAt |-> 0]

\* A message as found in saved plugin data.
SavedMessage(i, t) ==
  [id |-> 200 + i, role |-> "user", content |-> "question", timestamp |-> t]

\* A saved session whose stored messages are not in timestamp order and hold
\* two messages of one timestamp.
SavedSessionWithMessages ==
  [id |-> 101,
   messages |-> <<SavedMessage(1, 0), SavedMessage(2, -1), SavedMessage(3, -1)>>,
   contextItems |-> <<>>,
   currentModelId |-> "m1",
   createdAt |-> -1,
   updatedAt |-> 0]

\* The session lists handed to loadState: none, two, one more than
\* MAX_SESSIONS, one with stored messages.
SavedLists ==
  { <<>>,
    [i \in 1..2 |-> SavedSession(i)],
    [i \in 1..(MAX_SESSIONS + 1) |-> SavedSession(i)],
    <<SavedSession(2), SavedSessionWithMessages>> }

\* The saved lists that hold no more than MAX_SESSIONS sessions.
ShortSavedLists == {saved \in SavedLists : Len(saved) <= MAX_SESSIONS}

\* The current session ids handed to loadState: null, the id of a saved
\* session, an id no saved session has.
SavedCurrents == {NoId, 101, UnknownId}

\* A loadState that always makes the first loaded session current.
LoadedState_FirstAlways(saved, savedCurrent) ==
  [sessions |-> saved,
   currentSessionId |-> IF Len(saved) > 0 THEN saved[1].id ELSE NoId]

\* The store after loadState(saved, savedCurrent).
LoadedState(saved, savedCurrent) ==
  [sessions |-> saved,
   currentSessionId |->
     IF savedCurrent # NoId /\ savedCurrent \notin Ids(saved)
     THEN (IF Len(saved) > 0 THEN saved[1].id ELSE NoId)
     ELSE savedCurrent]

\* loadState(sessions, currentSessionId)
LoadState(saved, savedCurrent) ==
  /\ opsLeft > 0
  /\ sessions' = LoadedState(saved, savedCurrent).sessions
  /\ currentSessionId' = LoadedState(saved, savedCurrent).currentSessionId
  /\ call' = [op |-> "loadState", id |-> savedCurrent]
  /\ opsLeft' = opsLeft - 1
  /\ ret' = TRUE
  /\ UNCHANGED <<now, nextSessionId, nextItemId>>

\* exportState() on the store (ss, cur)
ExportState(ss, cur) == [sessions |-> ss, currentSessionId |-> cur]

\* Time passes between two calls.
Tick ==
  /\ now < MaxClock
  /\ now' = now + 1
  /\ UNCHANGED <<sessions, currentSessionId, nextSessionId, nextItemId, opsLeft, ret, call>>

NoCall == [op |-> "none", id |-> NoId]

\* new ChatStateManager()
ChatInit ==
  /\ sessions = <<>>
  /\ currentSessionId = NoId
  /\ now = 1
  /\ nextSessionId = 1
  /\ nextItemId = 1
  /\ opsLeft = MaxOps
  /\ ret = TRUE
  /\ call = NoCall

\* new ChatStateManager(), with more calls and fewer sessions explored
ChatInitDeep ==
  /\ sessions = <<>>
  /\ currentSessionId = NoId
  /\ now = 1
  /\ nextSessionId = 1
  /\ nextItemId = 1
  /\ opsLeft = MaxDeepOps
  /\ ret = TRUE
  /\ call = NoCall

\* new ChatStateManager(initialSessions, initialCurrentSessionId): the
\* arguments are copied as they are.
ChatInitConstructed ==
  /\ sessions \in ShortSavedLists
  /\ currentSessionId \in SavedCurrents
  /\ now = 1
  /\ nextSessionId = 1
  /\ nextItemId = 1
  /\ opsLeft = MaxDeepOps
  /\ ret = TRUE
  /\ call = NoCall

-----------------------------------------------------------------------------
(***************************************************************************)
(* SettingsManager: the registry of providers and models                   *)
(*                                                                         *)
(* Ids are numbers given by generateId(), one counter for providers and    *)
(* models.  NoId stands for an empty providerId string.  Text fields are    *)
(* sequences of characters.                                                *)
(***************************************************************************)

MaxSettingsOps == 5

\* !text || text.trim() === ''
IsBlank(text) == text = <<>> \/ Trim(text) = <<>>

\* validateProvider(provider).valid
ValidateProvider(provider) ==
  /\ ~IsBlank(provider.name)
  /\ ~IsBlank(provider.baseUrl)
  /\ ~IsBlank(provider.apiKey)

\* validateModel(model).valid
ValidateModel(model) ==
  /\ ~IsBlank(model.name)
  /\ model.providerId # NoId
  /\ ~IsBlank(model.modelIdentifier)

\* The field of { ...old, ...updates }
Spread(old, updates, field) ==
  IF field \in DOMAIN updates THEN updates[field] ELSE old[field]

\* { ...this.settings.providers[index], ...updates }
MergeProvider(old, updates) ==
  [id      |-> old.id,
   name    |-> Spread(old, updates, "name"),
   baseUrl |-> Spread(old, updates, "baseUrl"),
   apiKey  |-> Spread(old, updates, "apiKey"),
   enabled |-> Spread(old, updates, "enabled"),
   type    |-> Spread(old, updates, "type")]

\* { ...this.settings.models[index], ...updates }
MergeModel(old, updates) ==
  [id              |-> old.id,
   name            |-> Spread(old, updates, "name"),
   providerId      |-> Spread(old, updates, "providerId"),
   modelIdentifier |-> Spread(old, updates, "modelIdentifier"),
   isDefault       |-> Spread(old, updates, "isDefault")]

\* A forEach that leaves every flag as it is.
UnsetDefaults_None(ms) == ms

\* this.settings.models.forEach(m => { m.isDefault = false; })
UnsetDefaults(ms) == [i \in 1..Len(ms) |-> [ms[i] EXCEPT !.isDefault = FALSE]]

\* A filter that keeps every model.
FilterNotProvider_KeepAll(ms, id) == ms

\* Array.prototype.filter(m => m.providerId !== id)
RECURSIVE FilterNotProvider(_, _)
FilterNotProvider(ms, id) ==
  IF ms = <<>> THEN <<>>
  ELSE IF Head(ms).providerId # id
       THEN <<Head(ms)>> \o FilterNotProvider(Tail(ms), id)
       ELSE FilterNotProvider(Tail(ms), id)

\* A call that returns success: false (or false) before it changes anything.
SettingsFail ==
  /\ settingsRet' = FALSE
  /\ UNCHANGED <<providers, models, nextSettingsId>>

\* Every call takes one of settingsOpsLeft and is recorded.
SettingsCall(op, id) ==
  /\ settingsOpsLeft > 0
  /\ settingsOpsLeft' = settingsOpsLeft - 1
  /\ settingsCall' = [op |-> op, id |-> id]

\* addProvider(provider)
AddProvider(provider) ==
  /\ SettingsCall("addProvider", NoId)
  /\ IF ~ValidateProvider(provider)
     THEN SettingsFail
     ELSE /\ providers' = Append(providers,
                            [id      |-> nextSettingsId,
                             name    |-> provider.name,
                             baseUrl |-> provider.baseUrl,
                             apiKey  |-> provider.apiKey,
                             enabled |-> provider.enabled,
                             type    |-> provider.type])
          /\ nextSettingsId' = nextSettingsId + 1
          /\ settingsRet' = TRUE
          /\ UNCHANGED models

\* updateProvider(id, updates)
UpdateProvider(id, updates) ==
  LET index == FindIndex(providers, id) IN
  /\ SettingsCall("updateProvider", id)
  /\ IF index = 0
     THEN SettingsFail
     ELSE LET updatedProvider == MergeProvider(providers[index], updates) IN
          IF ~ValidateProvider(updatedProvider)
          THEN SettingsFail
          ELSE /\ providers' = [providers EXCEPT ![index] = updatedProvider]
               /\ settingsRet' = TRUE
               /\ UNCHANGED <<models, nextSettingsId>>

\* deleteProvider that leaves the models of the provider.
DeleteProvider_NoCascade(id) ==
  LET index == FindIndex(providers, id) IN
  /\ SettingsCall("deleteProvider", id)
  /\ IF index = 0
     THEN SettingsFail
     ELSE /\ providers' = RemoveAt(providers, index)
          /\ settingsRet' = TRUE
          /\ UNCHANGED <<models, nextSettingsId>>

\* deleteProvider(id)
DeleteProvider(id) ==
  LET index == FindIndex(providers, id) IN
  /\ SettingsCall("deleteProvider", id)
  /\ IF index = 0
     THEN SettingsFail
     ELSE /\ providers' = RemoveAt(providers, index)
          /\ models' = FilterNotProvider(models, id)
          /\ settingsRet' = TRUE
          /\ UNCHANGED nextSettingsId

\* provider.enabled = !provider.enabled on the provider at index
Toggled(ps, index) == [ps EXCEPT ![index].enabled = ~@]

\* toggleProvider(id)
ToggleProvider(id) ==
  LET index == FindIndex(providers, id) IN
  /\ SettingsCall("toggleProvider", id)
  /\ IF index = 0
     THEN SettingsFail
     ELSE /\ providers' = Toggled(providers, index)
          /\ settingsRet' = TRUE
          /\ UNCHANGED <<models, nextSettingsId>>

\* addModel(model)
AddModel(model) ==
  /\ SettingsCall("addModel", NoId)
  /\ IF ~ValidateModel(model)
     THEN SettingsFail
     ELSE IF FindIndex(providers, model.providerId) = 0
     THEN SettingsFail
     ELSE LET newModel == [id              |-> nextSettingsId,
                           name            |-> model.name,
                           providerId      |-> model.providerId,
                           modelIdentifier |-> model.modelIdentifier,
                           isDefault       |-> model.isDefault]
          IN /\ models' = Append(IF newModel.isDefault
                                 THEN UnsetDefaults(models)
                                 ELSE models,
                                 newModel)
             /\ nextSettingsId' = nextSettingsId + 1
             /\ settingsRet' = TRUE
             /\ UNCHANGED providers

\* updateModel that unsets the defaults before it looks for the new provider.
UpdateModel_UnsetFirst(id, updates) ==
  LET index == FindIndex(models, id) IN
  /\ SettingsCall("updateModel", id)
  /\ IF index = 0
     THEN SettingsFail
     ELSE LET updatedModel == MergeModel(models[index], updates)
              unset == IF "isDefault" \in DOMAIN updates /\ updates.isDefault
                       THEN UnsetDefaults(models)
                       ELSE models
          IN
          IF ~ValidateModel(updatedModel)
          THEN SettingsFail
          ELSE IF /\ "providerId" \in DOMAIN updates
                  /\ updates.providerId # NoId
                  /\ FindIndex(providers, updates.providerId) = 0
          THEN /\ settingsRet' = FALSE
               /\ models' = unset
               /\ UNCHANGED <<providers, nextSettingsId>>
          ELSE /\ models' = [unset EXCEPT ![index] = updatedModel]
               /\ settingsRet' = TRUE
               /\ UNCHANGED <<providers, nextSettingsId>>

\* updateModel(id, updates)
UpdateModel(id, updates) ==
  LET index == FindIndex(models, id) IN
  /\ SettingsCall("updateModel", id)
  /\ IF index = 0
     THEN SettingsFail
     ELSE LET updatedModel == MergeModel(models[index], updates) IN
          IF ~ValidateModel(updatedModel)
          THEN SettingsFail
          ELSE IF /\ "providerId" \in DOMAIN updates
                  /\ updates.providerId # NoId
                  /\ FindIndex(providers, updates.providerId) = 0
          THEN SettingsFail
          ELSE /\ models' =
                    [(IF "isDefault" \in DOMAIN updates /\ updates.isDefault
                      THEN UnsetDefaults(models)
                      ELSE models) EXCEPT ![index] = updatedModel]
               /\ settingsRet' = TRUE
               /\ UNCHANGED <<providers, nextSettingsId>>

\* deleteModel(id)
DeleteModel(id) ==
  LET index == FindIndex(models, id) IN
  /\ SettingsCall("deleteModel", id)
  /\ IF index = 0
     THEN SettingsFail
     ELSE /\ models' = RemoveAt(models, index)
          /\ settingsRet' = TRUE
          /\ UNCHANGED <<providers, nextSettingsId>>

\* setDefaultModel that leaves the flags of the other models.
SetDefaultModel_KeepOthers(id) ==
  LET index == FindIndex(models, id) IN
  /\ SettingsCall("setDefaultModel", id)
  /\ IF index = 0
     THEN SettingsFail
     ELSE /\ models' = [models EXCEPT ![index].isDefault = TRUE]
          /\ settingsRet' = TRUE
          /\ UNCHANGED <<providers, nextSettingsId>>

\* setDefaultModel(id)
SetDefaultModel(id) ==
  LET index == FindIndex(models, id) IN
  /\ SettingsCall("setDefaultModel", id)
  /\ IF index = 0
     THEN SettingsFail
     ELSE /\ models' = [UnsetDefaults(models) EXCEPT ![index].isDefault = TRUE]
          /\ settingsRet' = TRUE
          /\ UNCHANGED <<providers, nextSettingsId>>

\* getDefaultModel(): the id of the first model with isDefault, NoId for
\* undefined
GetDefaultModel(ms) ==
  IF \E i \in 1..Len(ms) : ms[i].isDefault
  THEN ms[CHOOSE i \in 1..Len(ms) :
            ms[i].isDefault /\ \A j \in 1..(i - 1) : ~ms[j].isDefault].id
  ELSE NoId

\* A set of provider ids that ignores the enabled flag.
EnabledProviderIds_All(ps) == Ids(ps)

\* new Set(this.settings.providers.filter(p => p.enabled).map(p => p.id))
EnabledProviderIds(ps) == {ps[i].id : i \in {j \in 1..Len(ps) : ps[j].enabled}}

\* Array.prototype.filter(m => enabledProviderIds.has(m.providerId))
RECURSIVE FilterByProviders(_, _)
FilterByProviders(ms, ids) ==
  IF ms = <<>> THEN <<>>
  ELSE IF Head(ms).providerId \in ids
       THEN <<Head(ms)>> \o FilterByProviders(Tail(ms), ids)
       ELSE FilterByProviders(Tail(ms), ids)

\* getAvailableModels()
GetAvailableModels(ps, ms) == FilterByProviders(ms, EnabledProviderIds(ps))

\* The providers a caller hands to addProvider: two valid ones, and one for
\* each way validation fails.
ProviderInputs ==
  { [name |-> <<"H">>, baseUrl |-> <<"H">>, apiKey |-> <<"H">>,
     enabled |-> TRUE, type |-> "openai"],
    [name |-> <<"e">>, baseUrl |-> <<"H">>, apiKey |-> <<"H">>,
     enabled |-> FALSE, type |-> "anthropic"],
    [name |-> <<>>, baseUrl |-> <<"H">>, apiKey |-> <<"H">>,
     enabled |-> TRUE, type |-> "openai"],
    [name |-> <<"H">>, baseUrl |-> <<SP>>, apiKey |-> <<"H">>,
     enabled |-> TRUE, type |-> "openai"],
    [name |-> <<"H">>, baseUrl |-> <<"H">>, apiKey |-> <<>>,
     enabled |-> TRUE, type |-> "custom"] }

\* The partial providers handed to updateProvider.
ProviderUpdates ==
  { [name |-> <<"e">>],
    [name |-> <<SP>>],
    [apiKey |-> <<>>, enabled |-> FALSE],
    [enabled |-> FALSE] }

\* The ids a caller may hand in for a provider: those of the registry, one
\* that is not in it, and the empty string.
ProviderTargets == Ids(providers) \cup {UnknownId}

\* The models handed to addModel: for each provider id, a default and a
\* non-default valid model; models that fail validation, one of them marked
\* default.
ModelInputs ==
  { [name |-> <<"H">>, providerId |-> p, modelIdentifier |-> <<"H">>, isDefault |-> d]
      : p \in ProviderTargets, d \in BOOLEAN }
  \cup
  { [name |-> <<SP>>, providerId |-> p, modelIdentifier |-> <<"H">>, isDefault |-> TRUE]
      : p \in ProviderTargets }
  \cup
  { [name |-> <<"H">>, providerId |-> NoId, modelIdentifier |-> <<"H">>, isDefault |-> TRUE],
    [name |-> <<"H">>, providerId |-> UnknownId, modelIdentifier |-> <<>>, isDefault |-> FALSE] }

\* The partial models handed to updateModel.
ModelUpdates ==
  { [isDefault |-> TRUE],
    [isDefault |-> FALSE],
    [name |-> <<"e">>],
    [name |-> <<>>, isDefault |-> TRUE],
    [providerId |-> NoId, isDefault |-> TRUE] }
  \cup
  { [providerId |-> p, isDefault |-> TRUE] : p \in ProviderTargets }
  \cup
  { [providerId |-> p] : p \in ProviderTargets }

ModelTargets == Ids(models) \cup {UnknownId}

NoSettingsCall == [op |-> "none", id |-> NoId]

\* new SettingsManager(): the registry of DEFAULT_SETTINGS is empty.
SettingsInit ==
  /\ providers = <<>>
  /\ models = <<>>
  /\ nextSettingsId = 1
  /\ settingsOpsLeft = MaxSettingsOps
  /\ settingsRet = TRUE
  /\ settingsCall = NoSettingsCall

-----------------------------------------------------------------------------
(***************************************************************************)
(* LiveSelectionManager: the slot holding the editor's current selection   *)
(***************************************************************************)

MaxLiveOps == 4

\* currentSelection = null
NoSelection == [content |-> <<>>, sourcePath |-> "null", timestamp |-> 0 - 1]

\* What String.prototype.trim() strips, among the characters used here.
TrimmedChars == Whitespace \cup {NL}

\* !content || content.trim().length === 0, the empty test alone
IsBlankContent_EmptyOnly(content) == content = <<>>

\* !content || content.trim().length === 0
IsBlankContent(content) ==
  content = <<>> \/ \A i \in 1..Len(content) : content[i] \in TrimmedChars

\* The contents and source paths an editor hands over.
LiveContents ==
  {<<>>, <<" ">>, <<" ", "\t">>, <<NL, " ">>, <<"a", "b">>, <<" ", "a", NL>>}

LivePaths == {"undefined", "note.md"}

\* notifyChange()
NotifyChange ==
  notifyCount' = IF onChangeCallback THEN notifyCount + 1 ELSE notifyCount

\* The body of clearSelection().
ClearSelectionBody ==
  LET hadSelection == currentSelection # NoSelection
  IN  /\ currentSelection' = NoSelection
      /\ IF hadSelection THEN NotifyChange ELSE UNCHANGED notifyCount

\* The body of setSelection(content, sourcePath).
SetSelectionBody(content, sourcePath) ==
  IF IsBlankContent(content)
  THEN ClearSelectionBody
  ELSE /\ currentSelection' =
            [content |-> content, sourcePath |-> sourcePath, timestamp |-> now]
       /\ NotifyChange

\* setSelection(content, sourcePath)
SetSelection(content, sourcePath) ==
  /\ liveOpsLeft > 0
  /\ liveOpsLeft' = liveOpsLeft - 1
  /\ liveCall' = [op |-> "setSelection", content |-> content]
  /\ SetSelectionBody(content, sourcePath)
  /\ UNCHANGED onChangeCallback

\* clearSelection()
ClearSelection ==
  /\ liveOpsLeft > 0
  /\ liveOpsLeft' = liveOpsLeft - 1
  /\ liveCall' = [op |-> "clearSelection", content |-> <<>>]
  /\ ClearSelectionBody
  /\ UNCHANGED onChangeCallback

\* setOnChangeCallback(callback), with a function or with null
SetOnChangeCallback(callback) ==
  /\ onChangeCallback' = callback
  /\ UNCHANGED <<currentSelection, notifyCount, liveOpsLeft, liveCall>>

\* getSelection(), hasSelection()
HasSelection(selection) == selection # NoSelection

NoLiveCall == [op |-> "none", content |-> <<>>]

\* new LiveSelectionManager()
LiveInit ==
  /\ currentSelection = NoSelection
  /\ onChangeCallback = FALSE
  /\ notifyCount = 0
  /\ liveOpsLeft = MaxLiveOps
  /\ liveCall = NoLiveCall

-----------------------------------------------------------------------------
(***************************************************************************)
(* AIChatSidebarPlugin: the handlers that send a message, with the         *)
(* handlers that may run while a send awaits its provider                  *)
(*                                                                         *)
(* A handler runs from one await to the next without interruption; each    *)
(* action below is one such section.  The handlers are explored at one     *)
(* clock value, the last the clock takes; MaxSends calls of the send       *)
(* handlers, as many sessions, and MaxPluginOps calls of the handlers      *)
(* other than handleNewSession are explored.                               *)
(***************************************************************************)

MaxSends == 2

MaxPluginOps == 2

\* The text the user sends, the reply of a provider, the chunks of a streamed
\* reply.
UserContent == <<"q">>

ProviderResponse == <<"H", "i">>

ProviderStream == << <<"H">>, <<"i">> >>

\* The registry the plugin was loaded with: an enabled and a disabled
\* provider and a model of each; one of the models, or none, is the default.
PluginProviders ==
  << [id |-> 1, name |-> <<"H">>, baseUrl |-> <<"H">>, apiKey |-> <<"H">>,
      enabled |-> TRUE, type |-> "openai"],
     [id |-> 2, name |-> <<"e">>, baseUrl |-> <<"H">>, apiKey |-> <<"H">>,
      enabled |-> FALSE, type |-> "anthropic"] >>

PluginModels(defaultId) ==
  << [id |-> 3, name |-> <<"H">>, providerId |-> 1, modelIdentifier |-> <<"H">>,
      isDefault |-> (defaultId = 3)],
     [id |-> 4, name |-> <<"e">>, providerId |-> 2, modelIdentifier |-> <<"H">>,
      isDefault |-> (defaultId = 4)] >>

PluginDefaults == {3, NoId}

\* generateContextId(), `live-selection-${selection.timestamp}`
ContextId(n) == <<"ctx", n>>

LiveSelectionId(timestamp) == <<"live-selection", timestamp>>

\* sourcePath.split('/').pop(), for the paths used here
Basename(path) == path

\* The item addFile stores for the file picked.
FileItem(n) ==
  [id |-> ContextId(n), type |-> "file", path |-> "note.md",
   content |-> <<"f">>, displayName |-> <<"note.md">>]

\* The item getContextItemsWithLiveSelection builds from the slot.
LiveSelectionItem(selection) ==
  [id |-> LiveSelectionId(selection.timestamp),
   type |-> "selection",
   path |-> selection.sourcePath,
   content |-> selection.content,
   displayName |-> IF selection.sourcePath # "undefined"
                   THEN <<"Live Selection from", Basename(selection.sourcePath)>>
                   ELSE <<"Live Selection">>]

\* A variant that stores the item with the permanent ones.
GetContextItemsWithLiveSelection_Stored(stored, selection) ==
  IF HasSelection(selection)
  THEN [result |-> <<LiveSelectionItem(selection)>> \o stored,
        stored |-> <<LiveSelectionItem(selection)>> \o stored]
  ELSE [result |-> stored, stored |-> stored]

\* getContextItemsWithLiveSelection(): the list it returns and the items the
\* ContextManager holds afterwards (getActiveContext() gives a new array).
GetContextItemsWithLiveSelection(stored, selection) ==
  LET contextItems == stored IN
  IF HasSelection(selection)
  THEN [result |-> <<LiveSelectionItem(selection)>> \o contextItems, stored |-> stored]
  ELSE [result |-> contextItems, stored |-> stored]

\* The blob the save callback of the ChatStateManager hands to saveData.
SavedBlob(ss, cur) ==
  [providers |-> providers, models |-> models, sessions |-> ss, currentSessionId |-> cur]

\* chatStateManager.saveState(), up to the await of saveData
SaveState == savedData' = <<SavedBlob(sessions', currentSessionId')>>

\* The session createSession(modelId) makes, and the store addMessage leaves.
NewSession(id, modelId, t) ==
  [id |-> id, messages |-> <<>>, contextItems |-> <<>>, currentModelId |-> modelId,
   createdAt |-> t, updatedAt |-> t]

NewMessage(id, role, content, modelId, t) ==
  [id |-> id, role |-> role, content |-> content, modelId |-> modelId, timestamp |-> t]

WithMessage(ss, sessionId, message, t2) ==
  LET i == FindIndex(ss, sessionId) IN
  IF i = 0 THEN ss
  ELSE [ss EXCEPT ![i].messages = Append(@, message), ![i].updatedAt = t2]

\* One call of a send handler: where it is, the session and the user message
\* it took, what it handed to the AIServiceClient, and what the chunk
\* callback has received.
IdleSend ==
  [pc |-> "idle", streaming |-> FALSE, sessionId |-> NoId, userMessageId |-> 0,
   messages |-> <<>>, contextItems |-> <<>>, fullResponse |-> <<>>, chunks |-> <<>>]

\* A handler that has ended: its locals are gone; the session and the user
\* message it took stay on record.
Ended(send, pc) ==
  [IdleSend EXCEPT !.pc = pc, !.streaming = send.streaming,
                   !.sessionId = send.sessionId, !.userMessageId = send.userMessageId]

\* handleSendMessage / handleSendMessageStream up to the await of the
\* AIServiceClient: the session is found or created, the model and its
\* provider are looked up (an error thrown here ends the handler), the user
\* message is added, the messages and the context items are collected.
SendStart(s, streaming) ==
  /\ sends[s].pc = "idle"
  /\ s > 1 => sends[s - 1].pc # "idle"
  /\ LET create  == FindIndex(sessions, currentSessionId) = 0
         session == IF create
                    THEN NewSession(nextSessionId, GetDefaultModel(models), now)
                    ELSE SessionOf(sessions, currentSessionId)
         store   == IF create
                    THEN PruneSessions(Append(sessions, session), session.id)
                    ELSE [sessions |-> sessions, current |-> currentSessionId]
         modelId == session.currentModelId
         m       == FindIndex(models, modelId)
         p       == IF m = 0 THEN 0 ELSE FindIndex(providers, models[m].providerId)
     IN /\ create => nextSessionId <= MaxSends
        /\ nextSessionId' = IF create THEN nextSessionId + 1 ELSE nextSessionId
        /\ currentSessionId' = store.current
        /\ IF m = 0 \/ p = 0 \/ ~providers[p].enabled
           THEN /\ sessions' = store.sessions
                /\ sends' = [sends EXCEPT ![s] =
                     [IdleSend EXCEPT !.pc = "rejected", !.streaming = streaming,
                                      !.sessionId = session.id]]
                /\ UNCHANGED <<now, nextItemId, ctxItems>>
           ELSE \E t2 \in Later(now) :
                  LET found   == FindIndex(store.sessions, session.id) # 0
                      message == NewMessage(nextItemId, "user", UserContent, modelId, now)
                      after   == WithMessage(store.sessions, session.id, message, t2)
                      context == GetContextItemsWithLiveSelection(ctxItems, currentSelection)
                  IN /\ sessions' = after
                     /\ nextItemId' = IF found THEN nextItemId + 1 ELSE nextItemId
                     /\ now' = IF found THEN t2 ELSE now
                     /\ ctxItems' = context.stored
                     /\ sends' = [sends EXCEPT ![s] =
                          [pc |-> "calling", streaming |-> streaming,
                           sessionId |-> session.id,
                           userMessageId |-> IF found THEN nextItemId ELSE 0,
                           messages |-> GetMessages(after, session.id).result,
                           contextItems |-> context.result,
                           fullResponse |-> <<>>, chunks |-> <<>>]]
  /\ UNCHANGED <<opsLeft, ret, call, lastKnownSelection, savedData>>

\* The chunk callback of handleSendMessageStream, called with the next chunk
\* of the provider's stream: fullResponse += chunk; onChunk(chunk).
StreamChunk(s) ==
  /\ sends[s].pc = "calling"
  /\ sends[s].streaming
  /\ Len(sends[s].chunks) < Len(ProviderStream)
  /\ LET chunk == ProviderStream[Len(sends[s].chunks) + 1]
     IN sends' = [sends EXCEPT ![s].fullResponse = @ \o chunk,
                               ![s].chunks = Append(@, chunk)]
  /\ UNCHANGED <<chatVars, ctxItems, lastKnownSelection, savedData>>

\* The awaited sendMessage / sendMessageStream resolves: the assistant
\* message is added and saveState is called; the handler ends when the save
\* settles.
ProviderReturns(s) ==
  /\ sends[s].pc = "calling"
  /\ \E t2 \in Later(now) :
       LET found   == FindIndex(sessions, sends[s].sessionId) # 0
           modelId == IF sends[s].messages = <<>> THEN NoId
                      ELSE sends[s].messages[Len(sends[s].messages)].modelId
           content == IF sends[s].streaming THEN sends[s].fullResponse ELSE ProviderResponse
           message == NewMessage(nextItemId, "assistant", content, modelId, now)
       IN /\ sessions' = WithMessage(sessions, sends[s].sessionId, message, t2)
          /\ nextItemId' = IF found THEN nextItemId + 1 ELSE nextItemId
          /\ now' = IF found THEN t2 ELSE now
  /\ UNCHANGED currentSessionId
  /\ SaveState
  /\ sends' = [sends EXCEPT ![s] = Ended(sends[s], "done")]
  /\ UNCHANGED <<nextSessionId, opsLeft, ret, call, ctxItems, lastKnownSelection>>

\* A catch block that takes the user message of the failed send back.
ProviderThrows_Rollback(s) ==
  /\ sends[s].pc = "calling"
  /\ sends' = [sends EXCEPT ![s] = Ended(sends[s], "failed")]
  /\ sessions' =
       [i \in 1..Len(sessions) |->
          [sessions[i] EXCEPT !.messages =
             SelectSeq(@, LAMBDA m : m.id # sends[s].userMessageId)]]
  /\ UNCHANGED <<currentSessionId, now, nextSessionId, nextItemId, opsLeft, ret, call>>
  /\ UNCHANGED <<ctxItems, lastKnownSelection, savedData>>

\* The awaited sendMessage / sendMessageStream rejects: the catch block
\* rethrows.
ProviderThrows(s) ==
  /\ sends[s].pc = "calling"
  /\ sends' = [sends EXCEPT ![s] = Ended(sends[s], "failed")]
  /\ UNCHANGED <<chatVars, ctxItems, lastKnownSelection, savedData>>

\* A handler that calls no operation of the ChatStateManager is called.
HandlerCall(handler) ==
  /\ opsLeft > 0
  /\ opsLeft' = opsLeft - 1
  /\ call' = [op |-> handler, id |-> NoId]
  /\ ret' = TRUE

\* updateLiveSelection(editor), run by the debounce timer
UpdateLiveSelection(selection, sourcePath, editorHasFocus) ==
  /\ HandlerCall("updateLiveSelection")
  /\ IF ~IsBlankContent(selection)
     THEN /\ lastKnownSelection' = TRUE
          /\ SetSelectionBody(selection, sourcePath)
     ELSE IF lastKnownSelection
     THEN IF editorHasFocus
          THEN /\ lastKnownSelection' = FALSE
               /\ ClearSelectionBody
          ELSE UNCHANGED <<lastKnownSelection, currentSelection, notifyCount>>
     ELSE /\ ClearSelectionBody
          /\ UNCHANGED lastKnownSelection
  /\ UNCHANGED <<onChangeCallback, liveOpsLeft, liveCall>>
  /\ UNCHANGED <<sessions, currentSessionId, now, nextSessionId, nextItemId>>
  /\ UNCHANGED <<ctxItems, sends, savedData>>

\* handleClearLiveSelection()
HandleClearLiveSelection ==
  /\ HandlerCall("handleClearLiveSelection")
  /\ lastKnownSelection' = FALSE
  /\ ClearSelectionBody
  /\ UNCHANGED <<onChangeCallback, liveOpsLeft, liveCall>>
  /\ UNCHANGED <<sessions, currentSessionId, now, nextSessionId, nextItemId>>
  /\ UNCHANGED <<ctxItems, sends, savedData>>

\* handleAddFileContext(), from the moment the file was picked and read:
\* contextManager.addFile stores the item.
HandleAddFileContext ==
  /\ HandlerCall("handleAddFileContext")
  /\ ctxItems' = Append(ctxItems, FileItem(nextItemId))
  /\ nextItemId' = nextItemId + 1
  /\ UNCHANGED <<sessions, currentSessionId, now, nextSessionId>>
  /\ UNCHANGED <<lastKnownSelection, sends, savedData>>

\* handleRemoveContext(contextId)
HandleRemoveContext(contextId) ==
  /\ HandlerCall("handleRemoveContext")
  /\ ctxItems' = SelectSeq(ctxItems, LAMBDA item : item.id # contextId)
  /\ UNCHANGED <<sessions, currentSessionId, now, nextSessionId, nextItemId>>
  /\ UNCHANGED <<lastKnownSelection, sends, savedData>>

\* handleNewSession()
HandleNewSession ==
  /\ nextSessionId <= MaxSends
  /\ CreateSession(GetDefaultModel(models))
  /\ ctxItems' = <<>>
  /\ SaveState
  /\ UNCHANGED <<lastKnownSelection, sends>>

\* handleSwitchSession(sessionId): the context items of the session replace
\* those of the ContextManager.
HandleSwitchSession(sessionId) ==
  /\ SwitchSession(sessionId)
  /\ ctxItems' = IF FindIndex(sessions, sessionId) = 0
                 THEN <<>>
                 ELSE SessionOf(sessions, sessionId).contextItems
  /\ SaveState
  /\ UNCHANGED <<lastKnownSelection, sends>>

\* handleDeleteSession(sessionId)
HandleDeleteSession(sessionId) ==
  /\ DeleteSession(sessionId)
  /\ SaveState
  /\ UNCHANGED <<ctxItems, lastKnownSelection, sends>>

\* handleModelChange(modelId)
HandleModelChange(modelId) ==
  /\ FindIndex(sessions, currentSessionId) # 0
  /\ SetSessionModel(currentSessionId, modelId)
  /\ SaveState
  /\ UNCHANGED <<ctxItems, lastKnownSelection, sends>>

\* No plugin is loaded (the other components' specifications).
PluginIdle ==
  /\ ctxItems = <<>>
  /\ lastKnownSelection = FALSE
  /\ sends = [s \in 1..MaxSends |-> IdleSend]
  /\ savedData = <<>>
  /\ sidebarWasOpen = FALSE

\* The sessions and the current session id the SettingsManager was
\* constructed with (those of the saved data); no operation of the
\* SettingsManager writes them afterwards.
LoadedSessions == <<>>

LoadedCurrentSessionId == NoId

\* this.settings of the SettingsManager, as saveSettings() hands it to its
\* save callback and as getSettings() copies it.
SettingsBlob ==
  [providers |-> providers, models |-> models,
   sessions |-> LoadedSessions, currentSessionId |-> LoadedCurrentSessionId]

\* The callback of the settings tab: settingsManager.saveSettings(), whose
\* save callback hands the settings to saveData.
SaveSettings ==
  /\ HandlerCall("saveSettings")
  /\ savedData' = <<SettingsBlob>>
  /\ UNCHANGED <<sessions, currentSessionId, now, nextSessionId, nextItemId>>
  /\ UNCHANGED <<ctxItems, lastKnownSelection, sends, sidebarWasOpen>>

\* trackSidebarState(), run on a layout change that leaves the sidebar open
\* or closed.
TrackSidebarState(isOpen) ==
  /\ HandlerCall("trackSidebarState")
  /\ IF sidebarWasOpen # isOpen
     THEN /\ sidebarWasOpen' = isOpen
          /\ savedData' = <<[providers |-> providers, models |-> models,
                             sessions |-> LoadedSessions,
                             currentSessionId |-> LoadedCurrentSessionId,
                             sidebarWasOpen |-> isOpen]>>
     ELSE UNCHANGED <<sidebarWasOpen, savedData>>
  /\ UNCHANGED <<sessions, currentSessionId, now, nextSessionId, nextItemId>>
  /\ UNCHANGED <<ctxItems, lastKnownSelection, sends>>

\* onload() with saved data that holds a registry and no session.
PluginInit ==
  /\ providers = PluginProviders
  /\ \E d \in PluginDefaults : models = PluginModels(d)
  /\ nextSettingsId = 6
  /\ settingsOpsLeft = 0
  /\ settingsRet = TRUE
  /\ settingsCall = NoSettingsCall
  /\ sessions = LoadedSessions
  /\ currentSessionId = LoadedCurrentSessionId
  /\ now = MaxClock
  /\ nextSessionId = 1
  /\ nextItemId = 1
  /\ opsLeft = MaxPluginOps
  /\ ret = TRUE
  /\ call = NoCall
  /\ currentSelection = NoSelection
  /\ onChangeCallback = TRUE
  /\ notifyCount = 0
  /\ liveOpsLeft = 0
  /\ liveCall = NoLiveCall
  /\ ctxItems = <<>>
  /\ lastKnownSelection = FALSE
  /\ sends = [s \in 1..MaxSends |-> IdleSend]
  /\ savedData = <<>>
  /\ sidebarWasOpen = FALSE

-----------------------------------------------------------------------------
(***************************************************************************)
(* Two ChatStateManagers and an exported state                             *)
(*                                                                         *)
(* A session is an object; this.sessions of a manager, and the sessions    *)
(* array of the value exportState() returns, hold references to session    *)
(* objects.  `heap` holds the objects, by id; an array is the sequence of  *)
(* the ids of the objects it refers to.  [...array] makes a new array that *)
(* refers to the same objects.                                             *)
(***************************************************************************)

MaxShareSessions == 2

MaxShareOps == 3

Managers == {1, 2}

\* The session objects an array refers to, in order.
Deref(h, array) == [i \in 1..Len(array) |-> h[array[i]]]

\* The ids of the session objects of a list of sessions, in order.
Refs(ss) == [i \in 1..Len(ss) |-> ss[i].id]

NoShareCall == [op |-> "none", manager |-> 0, id |-> NoId]

ShareCall(op, k, id) ==
  /\ shareOpsLeft > 0
  /\ shareOpsLeft' = shareOpsLeft - 1
  /\ shareCall' = [op |-> op, manager |-> k, id |-> id]

\* createSession(modelId) of manager k
CreateSessionOf(k, modelId) ==
  /\ Len(heap) < MaxShareSessions
  /\ LET session == NewSession(Len(heap) + 1, modelId, now)
         h       == Append(heap, session)
         store   == PruneSessions(Deref(h, Append(managers[k].sessions, session.id)),
                                  session.id)
     IN /\ heap' = h
        /\ managers' = [managers EXCEPT
             ![k] = [sessions |-> Refs(store.sessions), currentSessionId |-> store.current]]
  /\ shareCall' = [op |-> "createSession", manager |-> k, id |-> Len(heap) + 1]
  /\ UNCHANGED <<exportedState, shareOpsLeft, nextItemId>>

\* exportState() of manager k: sessions: [...this.sessions]
ExportStateOf(k) ==
  /\ ShareCall("exportState", k, NoId)
  /\ exportedState' = <<[sessions |-> managers[k].sessions,
                    currentSessionId |-> managers[k].currentSessionId]>>
  /\ UNCHANGED <<heap, managers, nextItemId>>

\* loadState(state.sessions, state.currentSessionId) of manager k, with the
\* exported value: this.sessions = [...sessions]
LoadStateOf(k) ==
  /\ exportedState # <<>>
  /\ ShareCall("loadState", k, exportedState[1].currentSessionId)
  /\ LET loaded == LoadedState(Deref(heap, exportedState[1].sessions),
                               exportedState[1].currentSessionId)
     IN managers' = [managers EXCEPT
          ![k] = [sessions |-> Refs(loaded.sessions),
                  currentSessionId |-> loaded.currentSessionId]]
  /\ UNCHANGED <<heap, exportedState, nextItemId>>

\* this.sessions.find(s => s.id === sessionId) of manager k: the id of the
\* object found, NoId for undefined.
FindOf(k, sessionId) ==
  LET ss == Deref(heap, managers[k].sessions) IN
  IF FindIndex(ss, sessionId) = 0 THEN NoId ELSE managers[k].sessions[FindIndex(ss, sessionId)]

\* addMessage(sessionId, message) of manager k: session.messages.push(newMessage)
AddMessageOf(k, sessionId, message) ==
  /\ ShareCall("addMessage", k, sessionId)
  /\ LET ref == FindOf(k, sessionId) IN
     IF ref = NoId
     THEN UNCHANGED <<heap, nextItemId>>
     ELSE /\ heap' = [heap EXCEPT
               ![ref].messages = Append(@, [id |-> nextItemId, role |-> message.role,
                                            content |-> message.content,
                                            timestamp |-> now]),
               ![ref].updatedAt = now]
          /\ nextItemId' = nextItemId + 1
  /\ UNCHANGED <<managers, exportedState>>

\* clearSession(sessionId) of manager k: session.messages = []
ClearSessionOf(k, sessionId) ==
  /\ ShareCall("clearSession", k, sessionId)
  /\ LET ref == FindOf(k, sessionId) IN
     IF ref = NoId
     THEN UNCHANGED heap
     ELSE heap' = [heap EXCEPT ![ref].messages = <<>>, ![ref].updatedAt = now]
  /\ UNCHANGED <<managers, exportedState, nextItemId>>

\* setSessionModel(sessionId, modelId) of manager k
SetSessionModelOf(k, sessionId, modelId) ==
  /\ ShareCall("setSessionModel", k, sessionId)
  /\ LET ref == FindOf(k, sessionId) IN
     IF ref = NoId
     THEN UNCHANGED heap
     ELSE heap' = [heap EXCEPT ![ref].currentModelId = modelId, ![ref].updatedAt = now]
  /\ UNCHANGED <<managers, exportedState, nextItemId>>

\* addContextItem(sessionId, contextItem) of manager k:
\* session.contextItems.push(contextItem)
AddContextItemOf(k, sessionId) ==
  /\ ShareCall("addContextItem", k, sessionId)
  /\ LET ref == FindOf(k, sessionId) IN
     IF ref = NoId
     THEN UNCHANGED <<heap, nextItemId>>
     ELSE /\ heap' = [heap EXCEPT
               ![ref].contextItems = Append(@, [id |-> nextItemId, type |-> "file"]),
               ![ref].updatedAt = now]
          /\ nextItemId' = nextItemId + 1
  /\ UNCHANGED <<managers, exportedState>>

\* getSession(sessionId) of manager k, on the heap h: the fields of the
\* object found, NoId for null.
GetSessionOf(h, k, sessionId) ==
  IF FindOf(k, sessionId) = NoId THEN NoId ELSE h[FindOf(k, sessionId)]

\* No manager of this kind exists (the other components' specifications).
ShareIdle ==
  /\ heap = <<>>
  /\ managers = [k \in Managers |-> [sessions |-> <<>>, currentSessionId |-> NoId]]
  /\ exportedState = <<>>
  /\ shareOpsLeft = 0
  /\ shareCall = NoShareCall

\* new ChatStateManager(), twice
ShareInit ==
  /\ heap = <<>>
  /\ managers = [k \in Managers |-> [sessions |-> <<>>, currentSessionId |-> NoId]]
  /\ exportedState = <<>>
  /\ shareOpsLeft = MaxShareOps
  /\ shareCall = NoShareCall

-----------------------------------------------------------------------------
(***************************************************************************)
(* AIServiceClient.formatRequest                                           *)
(*                                                                         *)
(* A text is the sequence of its parts; a part is a character or a word.   *)
(* A body is the object JSON.stringify writes: a property whose value is   *)
(* undefined is no field of it.                                            *)
(***************************************************************************)

MaxFmtMessages == 2

MaxFmtItems == 2

\* array.map(f) and array.join(separator) on texts
RECURSIVE Join(_, _)
Join(texts, separator) ==
  IF texts = <<>> THEN <<>>
  ELSE IF Len(texts) = 1 THEN texts[1]
  ELSE texts[1] \o separator \o Join(Tail(texts), separator)

Map(array, F(_)) == [i \in 1..Len(array) |-> F(array[i])]

\* `[${item.displayName}]\n${item.content}`
FormatItem(item) == <<"[">> \o item.displayName \o <<"]", NL>> \o item.content

\* A variant that adds one system message per context item.
PrependContext_OnePerItem(messages, contextItems, t) ==
  [i \in 1..Len(contextItems) |->
     [id |-> <<"context-", t>>, role |-> "system",
      content |-> <<"Context:", NL, NL>> \o FormatItem(contextItems[i]),
      timestamp |-> t]] \o messages

\* prependContext(messages, contextItems), Date.now() being t
PrependContext(messages, contextItems, t) ==
  IF Len(contextItems) = 0 THEN messages
  ELSE LET contextContent == Join(Map(contextItems, FormatItem), <<NL, NL, "---", NL, NL>>)
           contextMessage == [id |-> <<"context-", t>>, role |-> "system",
                              content |-> <<"Context:", NL, NL>> \o contextContent,
                              timestamp |-> t]
       IN <<contextMessage>> \o messages

\* formatOpenAIRequest(model, messages, stream)
FormatOpenAIRequest(model, messages, streaming) ==
  [model |-> model.modelIdentifier,
   messages |-> Map(messages, LAMBDA msg : [role |-> msg.role, content |-> msg.content]),
   stream |-> streaming,
   temperature |-> "0.7",
   max_tokens |-> 2000]

\* A variant that leaves the system messages among the messages.
FormatAnthropicRequest_SystemKept(model, messages, streaming) ==
  [model |-> model.modelIdentifier,
   messages |-> Map(messages, LAMBDA msg :
                  [role |-> IF msg.role = "assistant" THEN "assistant" ELSE "user",
                   content |-> msg.content]),
   max_tokens |-> 2000,
   stream |-> streaming]

\* formatAnthropicRequest(model, messages, stream)
FormatAnthropicRequest(model, messages, streaming) ==
  LET systemMessages == SelectSeq(messages, LAMBDA m : m.role = "system")
      otherMessages  == SelectSeq(messages, LAMBDA m : m.role # "system")
      mapped == Map(otherMessages, LAMBDA msg :
                  [role |-> IF msg.role = "assistant" THEN "assistant" ELSE "user",
                   content |-> msg.content])
  IN IF Len(systemMessages) > 0
     THEN [model |-> model.modelIdentifier, messages |-> mapped,
           max_tokens |-> 2000, stream |-> streaming,
           system |-> Join(Map(systemMessages, LAMBDA m : m.content), <<NL>>)]
     ELSE [model |-> model.modelIdentifier, messages |-> mapped,
           max_tokens |-> 2000, stream |-> streaming]

\* formatRequest(provider, model, messages, contextItems, stream), Date.now()
\* being t
FormatRequestBody(provider, model, messages, contextItems, streaming, t) ==
  LET formattedMessages == PrependContext(messages, contextItems, t) IN
  IF provider.type = "openai"
  THEN FormatOpenAIRequest(model, formattedMessages, streaming)
  ELSE IF provider.type = "anthropic"
  THEN FormatAnthropicRequest(model, formattedMessages, streaming)
  ELSE FormatOpenAIRequest(model, formattedMessages, streaming)

\* ---- the arguments explored
ProviderTypes == {"openai", "anthropic", "custom"}

FmtModel == [id |-> 3, modelIdentifier |-> <<"gpt">>]

\* The messages of a conversation: of each role, with one of two contents.
FmtMessages ==
  { [id |-> 0, role |-> r, content |-> c, timestamp |-> 0] :
      r \in {"user", "assistant", "system"}, c \in {<<"q">>, <<"a", NL, "b">>} }

FmtItems ==
  { [id |-> 0, type |-> "file", displayName |-> <<"note.md">>, content |-> <<"f">>],
    [id |-> 0, type |-> "selection", displayName |-> <<"Selection">>, content |-> <<"s", NL, "t">>] }

SeqsUpTo(S, n) == UNION { [1..k -> S] : k \in 0..n }

NoBody == [model |-> <<>>]

\* formatRequest(...) returns.
FormatRequest ==
  /\ fmtBody = NoBody
  /\ fmtBody' = FormatRequestBody([type |-> fmtInput.type], FmtModel, fmtInput.messages,
                                  fmtInput.contextItems, fmtInput.stream, now)
  /\ UNCHANGED fmtInput

\* No request is being built (the other components' specifications).
FormatIdle ==
  /\ fmtInput = [type |-> "openai", messages |-> <<>>, contextItems |-> <<>>, stream |-> FALSE]
  /\ fmtBody = NoBody

\* formatRequest is called.
FormatInit ==
  /\ fmtInput \in [type : ProviderTypes,
                    messages : SeqsUpTo(FmtMessages, MaxFmtMessages),
                    contextItems : SeqsUpTo(FmtItems, MaxFmtItems),
                    stream : BOOLEAN]
  /\ fmtBody = NoBody

-----------------------------------------------------------------------------
(***************************************************************************)
(* AIServiceClient.sendMessage: makeRequest, then handleResponse           *)
(*                                                                         *)
(* A value that may be undefined is a sequence of no or one element.       *)
(***************************************************************************)

Undefined == <<>>

Some(value) == <<value>>

\* The bodies a provider answers with.  As JSON: the OpenAI shape and the
\* Anthropic shape, each with a text or with the empty text; an object with
\* neither property; choices or content an empty array; a first element
\* without message or without text.  And a body that is no JSON.
OpenAIShape(text) ==
  [isJson |-> TRUE,
   choices |-> Some(<< [message |-> Some([content |-> Some(text)])] >>),
   content |-> Undefined]

AnthropicShape(text) ==
  [isJson |-> TRUE,
   choices |-> Undefined,
   content |-> Some(<< [text |-> Some(text)] >>)]

ResponseTexts == {<<"H", "i">>, <<>>}

OtherBodies ==
  { [isJson |-> TRUE, choices |-> Undefined, content |-> Undefined],
    [isJson |-> TRUE, choices |-> Some(<<>>), content |-> Undefined],
    [isJson |-> TRUE, choices |-> Some(<< [message |-> Undefined] >>), content |-> Undefined],
    [isJson |-> TRUE, choices |-> Undefined, content |-> Some(<<>>)],
    [isJson |-> TRUE, choices |-> Undefined, content |-> Some(<< [text |-> Undefined] >>)],
    [isJson |-> FALSE, choices |-> Undefined, content |-> Undefined] }

ResponseBodies ==
  {OpenAIShape(t) : t \in ResponseTexts} \cup {AnthropicShape(t) : t \in ResponseTexts}
    \cup OtherBodies

\* data.choices[0]?.message?.content, data.choices being an array
ChoiceContent(data) ==
  LET choices == data.choices[1] IN
  IF Len(choices) = 0 THEN Undefined
  ELSE IF choices[1].message = Undefined THEN Undefined
  ELSE choices[1].message[1].content

\* data.content[0]?.text, data.content being an array
ContentText(data) ==
  LET content == data.content[1] IN
  IF Len(content) = 0 THEN Undefined
  ELSE content[1].text

\* Whether a value that is a text or undefined is truthy.
Truthy(value) == value # Undefined /\ value[1] # <<>>

NoSendResult == [kind |-> "none", value |-> <<>>, error |-> "none"]

\* handleResponse(response): what it returns or throws; response.json()
\* rejects with a SyntaxError for a body that is no JSON.
HandleResponseResult(body) ==
  IF ~body.isJson
  THEN [kind |-> "thrown", value |-> <<>>, error |-> "SyntaxError"]
  ELSE IF body.choices # Undefined /\ Truthy(ChoiceContent(body))
  THEN [kind |-> "returned", value |-> ChoiceContent(body)[1], error |-> "none"]
  ELSE IF body.content # Undefined /\ Truthy(ContentText(body))
  THEN [kind |-> "returned", value |-> ContentText(body)[1], error |-> "none"]
  ELSE [kind |-> "thrown", value |-> <<>>, error |-> "unknown"]

\* sendMessage(provider, model, messages, contextItems) is called:
\* formatRequest, then makeRequest.
SendMessage ==
  /\ MakeRequest
  /\ sendResult' = NoSendResult
  /\ UNCHANGED responseBody

\* The awaited makeRequest returned the response: handleResponse(response),
\* whose result sendMessage returns.
HandleResponse(body) ==
  /\ reqPc = "returned"
  /\ sendResult = NoSendResult
  /\ responseBody' = body
  /\ sendResult' = HandleResponseResult(body)
  /\ UNCHANGED reqVars

\* No message is being sent (the other components' specifications).
SendIdle ==
  /\ responseBody = [isJson |-> FALSE, choices |-> Undefined, content |-> Undefined]
  /\ sendResult = NoSendResult

-----------------------------------------------------------------------------
(***************************************************************************)
(* LiveSelectionManager.getPreview                                         *)
(***************************************************************************)

MaxPreviewLength == 5

\* The selections previewed: of one, four and six characters.
PreviewContents == {<<"a">>, <<"a", "b", "c", "d">>, <<"a", "b", "c", "d", "e", "f">>}

\* String.prototype.substring(start, end): an argument below 0 counts as 0,
\* one above the length as the length, and the smaller of the two is the
\* start.
Clamp(n, len) == IF n < 0 THEN 0 ELSE IF n > len THEN len ELSE n

Substring(s, start, end) ==
  LET a == Clamp(start, Len(s))
      b == Clamp(end, Len(s))
  IN SubSeq(s, (IF a < b THEN a ELSE b) + 1, IF a < b THEN b ELSE a)

Ellipsis == <<".", ".", ".">>

\* getPreview(maxLength): the text it returns.
Preview(selection, maxLength) ==
  IF selection = NoSelection THEN <<>>
  ELSE LET content == selection.content IN
       IF Len(content) <= maxLength THEN content
       ELSE Substring(content, 0, maxLength - 3) \o Ellipsis

NoPreview == [maxLength |-> 0, result |-> <<>>, called |-> FALSE]

\* getPreview(maxLength)
GetPreview(maxLength) ==
  /\ liveOpsLeft > 0
  /\ liveOpsLeft' = liveOpsLeft - 1
  /\ liveCall' = [op |-> "getPreview", content |-> <<>>]
  /\ preview' = [maxLength |-> maxLength, result |-> Preview(currentSelection, maxLength),
                 called |-> TRUE]
  /\ UNCHANGED <<currentSelection, onChangeCallback, notifyCount>>

\* getPreview was not called (the other components' specifications).
PreviewIdle == preview = NoPreview

-----------------------------------------------------------------------------
(***************************************************************************)
(* ContextManager.addFolder                                                *)
(*                                                                         *)
(* A path is the sequence of its parts: names, "/" and, last, the          *)
(* extension with its dot.  A file of the vault has an extension, a folder *)
(* has children.  The items of the store are ctxItems, in insertion order  *)
(* (the Map keeps it).                                                     *)
(***************************************************************************)

MaxFolderOps == 2

\* String.prototype.toLowerCase, on the extensions used here
ToLowerCase(part) == IF part = ".MD" THEN ".md" ELSE part

\* isMarkdownFile(path)
IsMarkdownFile(path) == path # <<>> /\ ToLowerCase(path[Len(path)]) = ".md"

\* validateFilePath(path)
ValidateFilePath(path) ==
  /\ path # <<>>
  /\ \A i \in 1..Len(path) : path[i] # ".."
  /\ path[1] # "/"

\* path.split('/').pop() || path
RECURSIVE LastSegment(_)
LastSegment(path) ==
  IF \E i \in 1..Len(path) : path[i] = "/"
  THEN LastSegment(Tail(path))
  ELSE path

\* ---- the vaults explored
VaultFile(path, content) ==
  [path |-> path, extension |-> path[Len(path)], content |-> content]

VaultFolder(path, children) == [path |-> path, children |-> children]

\* docs/ with a.md, b.txt, sub/ (c.MD, d.md) and e.md; docs/ with b.txt and
\* an empty sub/.
Vaults ==
  { VaultFolder(<<"docs">>,
      << VaultFile(<<"docs", "/", "a", ".md">>, <<"A">>),
         VaultFile(<<"docs", "/", "b", ".txt">>, <<"B">>),
         VaultFolder(<<"docs", "/", "sub">>,
           << VaultFile(<<"docs", "/", "sub", "/", "c", ".MD">>, <<"C">>),
              VaultFile(<<"docs", "/", "sub", "/", "d", ".md">>, <<"D">>) >>),
         VaultFile(<<"docs", "/", "e", ".md">>, <<"E">>) >>),
    VaultFolder(<<"docs">>,
      << VaultFile(<<"docs", "/", "b", ".txt">>, <<"B">>),
         VaultFolder(<<"docs", "/", "sub">>, <<>>) >>) }

\* The paths addFolder is called with: the root folder, its subfolder, a
\* folder that does not exist, a path that leaves the vault.
FolderPaths ==
  { <<"docs">>, <<"docs", "/", "sub">>, <<"none">>, <<"..", "/", "docs">> }

IsFile(node) == "extension" \in DOMAIN node

IsFolder(node) == "children" \in DOMAIN node

\* fileSystem.getFolder(path): the folder of that path, in a sequence of no
\* or one element (null).
RECURSIVE GetFolderIn(_, _)
GetFolderIn(nodes, path) ==
  IF nodes = <<>> THEN <<>>
  ELSE IF IsFolder(Head(nodes))
       THEN IF Head(nodes).path = path THEN <<Head(nodes)>>
            ELSE LET below == GetFolderIn(Head(nodes).children, path) IN
                 IF below # <<>> THEN below ELSE GetFolderIn(Tail(nodes), path)
       ELSE GetFolderIn(Tail(nodes), path)

GetFolder(root, path) == GetFolderIn(<<root>>, path)

\* collectMarkdownFiles(folder), by the children of the folder
RECURSIVE CollectMarkdownFiles(_)
CollectMarkdownFiles(children) ==
  IF children = <<>> THEN <<>>
  ELSE LET child == Head(children) IN
       (IF IsFile(child)
        THEN (IF IsMarkdownFile(child.path) THEN <<child>> ELSE <<>>)
        ELSE IF IsFolder(child)
        THEN CollectMarkdownFiles(child.children)
        ELSE <<>>)
       \o CollectMarkdownFiles(Tail(children))

\* The item addFolder makes of a file it has read.
FolderItem(n, path, file) ==
  [id |-> ContextId(n), type |-> "folder", path |-> file.path,
   content |-> file.content,
   displayName |-> path \o <<"/">> \o LastSegment(file.path)]

IdleFolderCall ==
  [pc |-> "idle", path |-> <<>>, files |-> <<>>, reads |-> <<>>,
   addedItems |-> <<>>, ret |-> <<>>]

\* addFolder(path) up to its first await: the path is validated, the folder
\* looked up, the markdown files collected; without a file to read it
\* returns at once.
AddFolder(path) ==
  /\ \/ folderCall.pc = "idle"
     \/ /\ folderCall.pc \in {"returned", "thrown"}
        /\ folderOpsLeft > 0
  /\ folderOpsLeft' = IF folderCall.pc = "idle" THEN folderOpsLeft ELSE folderOpsLeft - 1
  /\ IF ~ValidateFilePath(path) \/ GetFolder(vault, path) = <<>>
     THEN folderCall' = [IdleFolderCall EXCEPT !.pc = "thrown", !.path = path]
     ELSE LET markdownFiles == CollectMarkdownFiles(GetFolder(vault, path)[1].children) IN
          folderCall' = [IdleFolderCall EXCEPT
                           !.pc = IF markdownFiles = <<>> THEN "returned" ELSE "reading",
                           !.path = path,
                           !.files = markdownFiles]
  /\ UNCHANGED <<vault, ctxItems, nextItemId>>

\* A variant whose loop is left by the first failed read.
ReadFileSettles_Abort(ok) ==
  /\ folderCall.pc = "reading"
  /\ IF ok
     THEN LET file == folderCall.files[Len(folderCall.reads) + 1]
              contextItem == FolderItem(nextItemId, folderCall.path, file)
              last == Len(folderCall.reads) + 1 = Len(folderCall.files)
          IN /\ ctxItems' = Append(ctxItems, contextItem)
             /\ nextItemId' = nextItemId + 1
             /\ folderCall' = [folderCall EXCEPT
                  !.reads = Append(@, ok),
                  !.addedItems = Append(@, contextItem),
                  !.pc = IF last THEN "returned" ELSE "reading",
                  !.ret = IF last THEN Append(folderCall.addedItems, contextItem) ELSE <<>>]
     ELSE /\ folderCall' = [folderCall EXCEPT !.reads = Append(@, ok), !.pc = "thrown"]
          /\ UNCHANGED <<ctxItems, nextItemId>>
  /\ UNCHANGED <<vault, folderOpsLeft>>

\* The awaited readFile of the next file settles: with the content (the
\* item is stored and pushed to addedItems) or with an error (caught and
\* logged); after the last file addFolder returns addedItems.
ReadFileSettles(ok) ==
  /\ folderCall.pc = "reading"
  /\ LET file == folderCall.files[Len(folderCall.reads) + 1]
         contextItem == FolderItem(nextItemId, folderCall.path, file)
         addedItems == IF ok THEN Append(folderCall.addedItems, contextItem)
                       ELSE folderCall.addedItems
         last == Len(folderCall.reads) + 1 = Len(folderCall.files)
     IN /\ ctxItems' = IF ok THEN Append(ctxItems, contextItem) ELSE ctxItems
        /\ nextItemId' = IF ok THEN nextItemId + 1 ELSE nextItemId
        /\ folderCall' = [folderCall EXCEPT
             !.reads = Append(@, ok),
             !.addedItems = addedItems,
             !.pc = IF last THEN "returned" ELSE "reading",
             !.ret = IF last THEN addedItems ELSE <<>>]
  /\ UNCHANGED <<vault, folderOpsLeft>>

\* removeContext(id), called while or after addFolder runs
RemoveContext(id) ==
  /\ folderOpsLeft > 0
  /\ folderOpsLeft' = folderOpsLeft - 1
  /\ ctxItems' = SelectSeq(ctxItems, LAMBDA item : item.id # id)
  /\ UNCHANGED <<vault, folderCall, nextItemId>>

\* addFolder is not in use (the other components' specifications).
FolderIdle ==
  /\ vault = VaultFolder(<<>>, <<>>)
  /\ folderCall = IdleFolderCall
  /\ folderOpsLeft = 0

\* new ContextManager(fileSystem) on one of the vaults.
FolderInit ==
  /\ vault \in Vaults
  /\ folderCall = IdleFolderCall
  /\ folderOpsLeft = MaxFolderOps

\* Nothing of the operations that are explored on their own is in use.
UnitIdle == ShareIdle /\ FormatIdle /\ SendIdle /\ PreviewIdle /\ FolderIdle

-----------------------------------------------------------------------------
(***************************************************************************)
(* Specifications                                                          *)
(***************************************************************************)

InitReq == ReqInit /\ StreamIdle /\ ChatInit /\ SettingsInit /\ LiveInit /\ PluginIdle /\ UnitIdle

NextReq ==
  \/ MakeRequest /\ UNCHANGED <<streamVars, chatVars, settingsVars, liveVars, pluginVars, unitVars>>
  \/ LoopTest /\ UNCHANGED <<streamVars, chatVars, settingsVars, liveVars, pluginVars, unitVars>>
  \/ (\E o \in FetchOutcomes : FetchSettles(o)) /\ UNCHANGED <<streamVars, chatVars, settingsVars, liveVars, pluginVars, unitVars>>
  \/ DelayElapses /\ UNCHANGED <<streamVars, chatVars, settingsVars, liveVars, pluginVars, unitVars>>

SpecReq == InitReq /\ [][NextReq]_vars

FairSpecReq ==
  /\ SpecReq
  /\ WF_vars(LoopTest /\ UNCHANGED <<streamVars, chatVars, settingsVars, liveVars, pluginVars, unitVars>>)
  /\ WF_vars((\E o \in FetchOutcomes : FetchSettles(o)) /\ UNCHANGED <<streamVars, chatVars, settingsVars, liveVars, pluginVars, unitVars>>)
  /\ WF_vars(DelayElapses /\ UNCHANGED <<streamVars, chatVars, settingsVars, liveVars, pluginVars, unitVars>>)

InitStream == StreamInit /\ ReqInit /\ ChatInit /\ SettingsInit /\ LiveInit /\ PluginIdle /\ UnitIdle

NextStream ==
  \/ (\E n \in 1..MaxChunk : ReadChunk(n)) /\ UNCHANGED <<reqVars, chatVars, settingsVars, liveVars, pluginVars, unitVars>>
  \/ ReadDone /\ UNCHANGED <<reqVars, chatVars, settingsVars, liveVars, pluginVars, unitVars>>

SpecStream == InitStream /\ [][NextStream]_vars

\* The sizes of the reads explored where a read may also reject: single
\* characters, half a chunk, a whole chunk.
ChunkSizes == {1, MaxChunk \div 2, MaxChunk}

\* A read resolves, with characters or with done.
Delivers ==
  \/ (\E n \in ChunkSizes : ReadChunk(n)) /\ UNCHANGED <<reqVars, chatVars, settingsVars, liveVars, pluginVars, unitVars>>
  \/ ReadDone /\ UNCHANGED <<reqVars, chatVars, settingsVars, liveVars, pluginVars, unitVars>>

\* Any read may reject instead.
NextStreamFaults ==
  \/ Delivers
  \/ ReadThrows /\ UNCHANGED <<reqVars, chatVars, settingsVars, liveVars, pluginVars, unitVars>>

\* ENABLED <<Delivers>>_vars: a read is awaited.
DeliversEnabled == strPc = "reading"

\* The upstream goes on delivering until it has closed the body or sent
\* [DONE]: weak fairness of the reads that resolve, WF_vars(Delivers), with
\* its enabling condition written out.  Nothing forces a read to reject.
FairSpecStream ==
  /\ InitStream
  /\ [][NextStreamFaults]_vars
  /\ ([]<>~DeliversEnabled \/ []<><<Delivers>>_vars)

InitChat == ChatInit /\ ReqInit /\ StreamIdle /\ SettingsInit /\ LiveInit /\ PluginIdle /\ UnitIdle

\* The session ids a caller may pass: those of the store, those generateId()
\* gave to sessions created earlier (deleted or pruned since), and an unknown
\* one.
Targets == Ids(sessions) \cup (1..(nextSessionId - 1)) \cup {UnknownId}

NextChat ==
  \/ (\E m \in {"m1"} : CreateSession(m)) /\ UNCHANGED <<reqVars, streamVars, settingsVars, liveVars, pluginVars, unitVars>>
  \/ (\E id \in Targets : SwitchSession(id)) /\ UNCHANGED <<reqVars, streamVars, settingsVars, liveVars, pluginVars, unitVars>>
  \/ (\E id \in Targets : ClearSession(id)) /\ UNCHANGED <<reqVars, streamVars, settingsVars, liveVars, pluginVars, unitVars>>
  \/ (\E id \in Targets : DeleteSession(id)) /\ UNCHANGED <<reqVars, streamVars, settingsVars, liveVars, pluginVars, unitVars>>
  \/ (\E id \in Targets, m \in MessageInputs : AddMessage(id, m))
       /\ UNCHANGED <<reqVars, streamVars, settingsVars, liveVars, pluginVars, unitVars>>
  \/ (\E id \in Targets : AddContextItem(id)) /\ UNCHANGED <<reqVars, streamVars, settingsVars, liveVars, pluginVars, unitVars>>
  \/ (\E id \in Targets, c \in 1..MaxOps : RemoveContextItem(id, c))
       /\ UNCHANGED <<reqVars, streamVars, settingsVars, liveVars, pluginVars, unitVars>>
  \/ (\E id \in Targets, m \in ModelIds : SetSessionModel(id, m))
       /\ UNCHANGED <<reqVars, streamVars, settingsVars, liveVars, pluginVars, unitVars>>
  \/ (\E saved \in SavedLists, cur \in SavedCurrents : LoadState(saved, cur))
       /\ UNCHANGED <<reqVars, streamVars, settingsVars, liveVars, pluginVars, unitVars>>
  \/ Tick /\ UNCHANGED <<reqVars, streamVars, settingsVars, liveVars, pluginVars, unitVars>>

SpecChat == InitChat /\ [][NextChat]_vars

\* The same calls on a store of at most MaxDeepSessions created sessions, with
\* MaxDeepOps calls other than createSession.
InitChatDeep == ChatInitDeep /\ ReqInit /\ StreamIdle /\ SettingsInit /\ LiveInit /\ PluginIdle /\ UnitIdle

NextChatDeep ==
  \/ (\E m \in {"m1"} : nextSessionId <= MaxDeepSessions /\ CreateSession(m))
       /\ UNCHANGED <<reqVars, streamVars, settingsVars, liveVars, pluginVars, unitVars>>
  \/ (\E id \in Targets : SwitchSession(id)) /\ UNCHANGED <<reqVars, streamVars, settingsVars, liveVars, pluginVars, unitVars>>
  \/ (\E id \in Targets : ClearSession(id)) /\ UNCHANGED <<reqVars, streamVars, settingsVars, liveVars, pluginVars, unitVars>>
  \/ (\E id \in Targets : DeleteSession(id)) /\ UNCHANGED <<reqVars, streamVars, settingsVars, liveVars, pluginVars, unitVars>>
  \/ (\E id \in Targets, m \in MessageInputs : AddMessage(id, m))
       /\ UNCHANGED <<reqVars, streamVars, settingsVars, liveVars, pluginVars, unitVars>>
  \/ (\E id \in Targets : AddContextItem(id)) /\ UNCHANGED <<reqVars, streamVars, settingsVars, liveVars, pluginVars, unitVars>>
  \/ (\E id \in Targets, c \in 1..MaxDeepOps : RemoveContextItem(id, c))
       /\ UNCHANGED <<reqVars, streamVars, settingsVars, liveVars, pluginVars, unitVars>>
  \/ (\E id \in Targets, m \in ModelIds : SetSessionModel(id, m))
       /\ UNCHANGED <<reqVars, streamVars, settingsVars, liveVars, pluginVars, unitVars>>
  \/ (\E saved \in ShortSavedLists, cur \in SavedCurrents : LoadState(saved, cur))
       /\ UNCHANGED <<reqVars, streamVars, settingsVars, liveVars, pluginVars, unitVars>>
  \/ Tick /\ UNCHANGED <<reqVars, streamVars, settingsVars, liveVars, pluginVars, unitVars>>

SpecChatDeep == InitChatDeep /\ [][NextChatDeep]_vars

\* The same calls on a manager constructed with a saved session list and a
\* saved current id.
InitChatConstructed == ChatInitConstructed /\ ReqInit /\ StreamIdle /\ SettingsInit /\ LiveInit /\ PluginIdle /\ UnitIdle

SpecChatConstructed == InitChatConstructed /\ [][NextChatDeep]_vars

InitSettings == SettingsInit /\ ReqInit /\ StreamIdle /\ ChatInit /\ LiveInit /\ PluginIdle /\ UnitIdle

NextSettings ==
  \/ (\E p \in ProviderInputs : AddProvider(p))
       /\ UNCHANGED <<reqVars, streamVars, chatVars, liveVars, pluginVars, unitVars>>
  \/ (\E id \in ProviderTargets, u \in ProviderUpdates : UpdateProvider(id, u))
       /\ UNCHANGED <<reqVars, streamVars, chatVars, liveVars, pluginVars, unitVars>>
  \/ (\E id \in ProviderTargets : DeleteProvider(id))
       /\ UNCHANGED <<reqVars, streamVars, chatVars, liveVars, pluginVars, unitVars>>
  \/ (\E id \in ProviderTargets : ToggleProvider(id))
       /\ UNCHANGED <<reqVars, streamVars, chatVars, liveVars, pluginVars, unitVars>>
  \/ (\E m \in ModelInputs : AddModel(m))
       /\ UNCHANGED <<reqVars, streamVars, chatVars, liveVars, pluginVars, unitVars>>
  \/ (\E id \in ModelTargets, u \in ModelUpdates : UpdateModel(id, u))
       /\ UNCHANGED <<reqVars, streamVars, chatVars, liveVars, pluginVars, unitVars>>
  \/ (\E id \in ModelTargets : DeleteModel(id))
       /\ UNCHANGED <<reqVars, streamVars, chatVars, liveVars, pluginVars, unitVars>>
  \/ (\E id \in ModelTargets : SetDefaultModel(id))
       /\ UNCHANGED <<reqVars, streamVars, chatVars, liveVars, pluginVars, unitVars>>

SpecSettings == InitSettings /\ [][NextSettings]_vars

InitLive == LiveInit /\ ReqInit /\ StreamIdle /\ ChatInit /\ SettingsInit /\ PluginIdle /\ UnitIdle

NextLive ==
  \/ (\E c \in LiveContents, p \in LivePaths : SetSelection(c, p))
       /\ UNCHANGED <<reqVars, streamVars, chatVars, settingsVars, pluginVars, unitVars>>
  \/ ClearSelection /\ UNCHANGED <<reqVars, streamVars, chatVars, settingsVars, pluginVars, unitVars>>
  \/ (\E cb \in BOOLEAN : SetOnChangeCallback(cb)) /\ UNCHANGED <<reqVars, streamVars, chatVars, settingsVars, pluginVars, unitVars>>
  \/ Tick /\ UNCHANGED <<reqVars, streamVars, settingsVars, liveVars, pluginVars, unitVars>>

SpecLive == InitLive /\ [][NextLive]_vars

InitPlugin == PluginInit /\ ReqInit /\ StreamIdle /\ UnitIdle

\* The selections an editor reports, and the model ids the model picker
\* offers.
PluginSelections == {<<>>, <<"a", "b">>}

NextPlugin ==
  \/ (\E s \in 1..MaxSends, streaming \in BOOLEAN : SendStart(s, streaming))
       /\ UNCHANGED <<reqVars, streamVars, settingsVars, liveVars, sidebarWasOpen, unitVars>>
  \/ (\E s \in 1..MaxSends : StreamChunk(s))
       /\ UNCHANGED <<reqVars, streamVars, settingsVars, liveVars, sidebarWasOpen, unitVars>>
  \/ (\E s \in 1..MaxSends : ProviderReturns(s))
       /\ UNCHANGED <<reqVars, streamVars, settingsVars, liveVars, sidebarWasOpen, unitVars>>
  \/ (\E s \in 1..MaxSends : ProviderThrows(s))
       /\ UNCHANGED <<reqVars, streamVars, settingsVars, liveVars, sidebarWasOpen, unitVars>>
  \/ HandleClearLiveSelection /\ UNCHANGED <<reqVars, streamVars, settingsVars, sidebarWasOpen, unitVars>>
  \/ (\E c \in PluginSelections, focus \in BOOLEAN : UpdateLiveSelection(c, "note.md", focus))
       /\ UNCHANGED <<reqVars, streamVars, settingsVars, sidebarWasOpen, unitVars>>
  \/ HandleAddFileContext /\ UNCHANGED <<reqVars, streamVars, settingsVars, liveVars, sidebarWasOpen, unitVars>>
  \/ (\E n \in 1..(nextItemId - 1) : HandleRemoveContext(ContextId(n)))
       /\ UNCHANGED <<reqVars, streamVars, settingsVars, liveVars, sidebarWasOpen, unitVars>>
  \/ HandleNewSession /\ UNCHANGED <<reqVars, streamVars, settingsVars, liveVars, sidebarWasOpen, unitVars>>
  \/ (\E id \in Ids(sessions) : HandleSwitchSession(id))
       /\ UNCHANGED <<reqVars, streamVars, settingsVars, liveVars, sidebarWasOpen, unitVars>>
  \/ (\E id \in Ids(sessions) : HandleDeleteSession(id))
       /\ UNCHANGED <<reqVars, streamVars, settingsVars, liveVars, sidebarWasOpen, unitVars>>
  \/ (\E m \in {3, 4} : HandleModelChange(m))
       /\ UNCHANGED <<reqVars, streamVars, settingsVars, liveVars, sidebarWasOpen, unitVars>>

SpecPlugin == InitPlugin /\ [][NextPlugin]_vars

\* The handlers with the two other callers of saveData.
NextPluginSaves ==
  \/ NextPlugin
  \/ SaveSettings /\ UNCHANGED <<reqVars, streamVars, settingsVars, liveVars, unitVars>>
  \/ (\E isOpen \in BOOLEAN : TrackSidebarState(isOpen))
       /\ UNCHANGED <<reqVars, streamVars, settingsVars, liveVars, unitVars>>

SpecPluginSaves == InitPlugin /\ [][NextPluginSaves]_vars

InitShare ==
  /\ ShareInit /\ FormatIdle /\ SendIdle /\ PreviewIdle /\ FolderIdle
  /\ ReqInit /\ StreamIdle /\ ChatInit /\ SettingsInit /\ LiveInit /\ PluginIdle

\* The calls on either manager; the chat variables give Date.now() and
\* generateId().
NextShare ==
  \/ (\E k \in Managers, m \in {"m1"} : CreateSessionOf(k, m))
       /\ UNCHANGED <<reqVars, streamVars, settingsVars, liveVars, pluginVars>>
       /\ UNCHANGED <<sessions, currentSessionId, now, nextSessionId, opsLeft, ret, call>>
       /\ UNCHANGED <<formatVars, sendVars, previewVars, folderVars>>
  \/ (\E k \in Managers : ExportStateOf(k))
       /\ UNCHANGED <<reqVars, streamVars, settingsVars, liveVars, pluginVars>>
       /\ UNCHANGED <<sessions, currentSessionId, now, nextSessionId, opsLeft, ret, call>>
       /\ UNCHANGED <<formatVars, sendVars, previewVars, folderVars>>
  \/ (\E k \in Managers : LoadStateOf(k))
       /\ UNCHANGED <<reqVars, streamVars, settingsVars, liveVars, pluginVars>>
       /\ UNCHANGED <<sessions, currentSessionId, now, nextSessionId, opsLeft, ret, call>>
       /\ UNCHANGED <<formatVars, sendVars, previewVars, folderVars>>
  \/ (\E k \in Managers, id \in 1..MaxShareSessions, m \in MessageInputs :
         AddMessageOf(k, id, m))
       /\ UNCHANGED <<reqVars, streamVars, settingsVars, liveVars, pluginVars>>
       /\ UNCHANGED <<sessions, currentSessionId, now, nextSessionId, opsLeft, ret, call>>
       /\ UNCHANGED <<formatVars, sendVars, previewVars, folderVars>>
  \/ (\E k \in Managers, id \in 1..MaxShareSessions : ClearSessionOf(k, id))
       /\ UNCHANGED <<reqVars, streamVars, settingsVars, liveVars, pluginVars>>
       /\ UNCHANGED <<sessions, currentSessionId, now, nextSessionId, opsLeft, ret, call>>
       /\ UNCHANGED <<formatVars, sendVars, previewVars, folderVars>>
  \/ (\E k \in Managers, id \in 1..MaxShareSessions : SetSessionModelOf(k, id, "m2"))
       /\ UNCHANGED <<reqVars, streamVars, settingsVars, liveVars, pluginVars>>
       /\ UNCHANGED <<sessions, currentSessionId, now, nextSessionId, opsLeft, ret, call>>
       /\ UNCHANGED <<formatVars, sendVars, previewVars, folderVars>>
  \/ (\E k \in Managers, id \in 1..MaxShareSessions : AddContextItemOf(k, id))
       /\ UNCHANGED <<reqVars, streamVars, settingsVars, liveVars, pluginVars>>
       /\ UNCHANGED <<sessions, currentSessionId, now, nextSessionId, opsLeft, ret, call>>
       /\ UNCHANGED <<formatVars, sendVars, previewVars, folderVars>>

SpecShare == InitShare /\ [][NextShare]_vars

InitFormat ==
  /\ FormatInit /\ ShareIdle /\ SendIdle /\ PreviewIdle /\ FolderIdle
  /\ ReqInit /\ StreamIdle /\ ChatInit /\ SettingsInit /\ LiveInit /\ PluginIdle

NextFormat ==
  FormatRequest
    /\ UNCHANGED <<reqVars, streamVars, chatVars, settingsVars, liveVars, pluginVars, shareVars, sendVars, previewVars, folderVars>>

SpecFormat == InitFormat /\ [][NextFormat]_vars

\* sendMessage: the steps of makeRequest, then handleResponse on the
\* response it returned.
NextSend ==
  \/ SendMessage
       /\ UNCHANGED <<streamVars, chatVars, settingsVars, liveVars, pluginVars, shareVars, formatVars, previewVars, folderVars>>
  \/ LoopTest /\ UNCHANGED <<streamVars, chatVars, settingsVars, liveVars, pluginVars, unitVars>>
  \/ (\E o \in FetchOutcomes : FetchSettles(o))
       /\ UNCHANGED <<streamVars, chatVars, settingsVars, liveVars, pluginVars, unitVars>>
  \/ DelayElapses /\ UNCHANGED <<streamVars, chatVars, settingsVars, liveVars, pluginVars, unitVars>>
  \/ (\E body \in ResponseBodies : HandleResponse(body))
       /\ UNCHANGED <<streamVars, chatVars, settingsVars, liveVars, pluginVars, shareVars, formatVars, previewVars, folderVars>>

SpecSend == InitReq /\ [][NextSend]_vars

\* setSelection, clearSelection and getPreview
NextPreview ==
  \/ (\E c \in PreviewContents : SetSelection(c, "note.md"))
       /\ UNCHANGED <<reqVars, streamVars, chatVars, settingsVars, pluginVars, unitVars>>
  \/ ClearSelection /\ UNCHANGED <<reqVars, streamVars, chatVars, settingsVars, pluginVars, unitVars>>
  \/ (\E maxLength \in 0..MaxPreviewLength : GetPreview(maxLength))
       /\ UNCHANGED <<reqVars, streamVars, chatVars, settingsVars, pluginVars>>
       /\ UNCHANGED <<shareVars, formatVars, sendVars, folderVars>>

SpecPreview == InitLive /\ [][NextPreview]_vars

InitFolder ==
  /\ FolderInit /\ ShareIdle /\ FormatIdle /\ SendIdle /\ PreviewIdle
  /\ ReqInit /\ StreamIdle /\ ChatInit /\ SettingsInit /\ LiveInit /\ PluginIdle

\* addFolder, its reads, and removeContext between them; the chat variable
\* nextItemId numbers the ids generateContextId() gives.
NextFolder ==
  \/ (\E path \in FolderPaths : AddFolder(path))
       /\ UNCHANGED <<reqVars, streamVars, settingsVars, liveVars>>
       /\ UNCHANGED <<sessions, currentSessionId, now, nextSessionId, opsLeft, ret, call>>
       /\ UNCHANGED <<lastKnownSelection, sends, savedData, sidebarWasOpen>>
       /\ UNCHANGED <<shareVars, formatVars, sendVars, previewVars>>
  \/ (\E ok \in BOOLEAN : ReadFileSettles(ok))
       /\ UNCHANGED <<reqVars, streamVars, settingsVars, liveVars>>
       /\ UNCHANGED <<sessions, currentSessionId, now, nextSessionId, opsLeft, ret, call>>
       /\ UNCHANGED <<lastKnownSelection, sends, savedData, sidebarWasOpen>>
       /\ UNCHANGED <<shareVars, formatVars, sendVars, previewVars>>
  \/ (\E n \in 1..(nextItemId - 1) : RemoveContext(ContextId(n)))
       /\ UNCHANGED <<reqVars, streamVars, settingsVars, liveVars>>
       /\ UNCHANGED <<sessions, currentSessionId, now, nextSessionId, opsLeft, ret, call>>
       /\ UNCHANGED <<lastKnownSelection, sends, savedData, sidebarWasOpen>>
       /\ UNCHANGED <<shareVars, formatVars, sendVars, previewVars>>

SpecFolder == InitFolder /\ [][NextFolder]_vars

-----------------------------------------------------------------------------
(***************************************************************************)
(* Properties of makeRequest                                               *)
(***************************************************************************)

IsDone == reqPc \in {"returned", "thrown"}

\* The outcomes the retry policy is stated for: rejections and 5xx responses.
Retryable(o) == o.kind = "rejection" \/ (o.kind = "response" /\ o.status >= 500)

AllRetryable(log, n) == \A i \in 1..n : Retryable(log[i])

\* The error type the taxonomy gives a failed outcome.
TypeOfOutcome(o) ==
  IF o.kind = "rejection"
  THEN IF o.name = "AbortError" THEN "timeout" ELSE "network"
  ELSE IF o.status \in {401, 403} THEN "auth"
  ELSE IF o.status = 429 THEN "rate_limit"
  ELSE IF o.status >= 500 THEN "server"
  ELSE "unknown"

\* C1: a 401, 403 or 429 response, at whichever attempt it arrives, is the last
\* fetch of the call: the call has thrown an APIError of type auth (401/403) or
\* rate_limit (429), no delay was started after it and no further fetch was
\* issued; as the first response it leaves exactly one fetch attempt.
C1_AuthAndRateLimitNeverRetried ==
  \A i \in 1..Len(fetchLog) :
    (fetchLog[i].kind = "response" /\ fetchLog[i].status \in {401, 403, 429}) =>
      /\ i = Len(fetchLog)
      /\ reqPc = "thrown"
      /\ reqResult.kind = "error"
      /\ reqResult.type = (IF fetchLog[i].status = 429 THEN "rate_limit" ELSE "auth")
      /\ reqResult.status = fetchLog[i].status
      /\ fetchCount = i
      /\ Len(delayLog) = i - 1

C1_Witness ==
  /\ Len(fetchLog) = 2
  /\ fetchLog[1] = Response(503)
  /\ fetchLog[2] = Response(403)
  /\ reqPc = "thrown"
  /\ reqResult.type = "auth"
  /\ fetchCount = 2

\* C2 (as claimed): a non-ok response that is none of 401, 403, 429, 5xx is
\* classified unknown and not retried: one fetch attempt, and the error thrown.
C2_UnknownStatusNotRetried ==
  \A i \in 1..Len(fetchLog) :
    (/\ fetchLog[i].kind = "response"
     /\ ~Ok(fetchLog[i].status)
     /\ fetchLog[i].status \notin {401, 403, 429}
     /\ fetchLog[i].status < 500) =>
      /\ i = Len(fetchLog)
      /\ reqPc = "thrown"
      /\ reqResult.type = "unknown"
      /\ (i = 1 => fetchCount = 1)

\* C3: a call issues at least one and at most three fetches, ends only by
\* returning an ok response or throwing an APIError, and every call ends.
C3_Safety ==
  /\ fetchCount <= 3
  /\ Len(fetchLog) <= fetchCount
  /\ IsDone =>
       /\ fetchCount >= 1
       /\ fetchCount = Len(fetchLog)
       /\ reqPc = "returned" => (reqResult.kind = "response" /\ Ok(reqResult.status))
       /\ reqPc = "thrown" => (reqResult.kind = "error" /\ reqResult.type \in APIErrorTypes)

C3_BoundedAttemptsAndEnds ==
  /\ []C3_Safety
  /\ (reqPc = "loop") ~> IsDone

C3_Witness ==
  /\ reqPc = "thrown"
  /\ fetchCount = 3
  /\ fetchLog[1] = Rejection("TypeError")
  /\ fetchLog[2] = Response(404)
  /\ fetchLog[3] = Rejection("AbortError")

\* C4: rejections (transport failure, timeout abort) and 5xx responses are
\* retried: while fewer than three attempts were made the call has not thrown
\* after one of them, and an ok response at attempt k after k-1 such failures
\* is returned after exactly k fetches.
C4_RetryableAreRetried ==
  /\ \A k \in 1..Len(fetchLog) :
       (/\ AllRetryable(fetchLog, k - 1)
        /\ fetchLog[k].kind = "response"
        /\ Ok(fetchLog[k].status)) =>
         /\ k = Len(fetchLog)
         /\ reqPc = "returned"
         /\ reqResult.kind = "response"
         /\ reqResult.status = fetchLog[k].status
         /\ fetchCount = k
  /\ (/\ Len(fetchLog) \in 1..(MAX_RETRIES - 1)
      /\ AllRetryable(fetchLog, Len(fetchLog))) => ~IsDone

C4_Witness ==
  /\ fetchLog = <<Response(503), Response(503), Response(200)>>
  /\ reqPc = "returned"
  /\ fetchCount = 3

\* C5: when three attempts fail with retryable outcomes, the error thrown is
\* the classified error of the third attempt.
C5_LastErrorThrown ==
  (Len(fetchLog) = 3 /\ AllRetryable(fetchLog, 3)) =>
    /\ reqPc = "thrown"
    /\ reqResult.kind = "error"
    /\ reqResult.type = TypeOfOutcome(fetchLog[3])

C5_Witness ==
  /\ fetchLog = <<Response(503), Rejection("TypeError"), Rejection("AbortError")>>
  /\ reqPc = "thrown"
  /\ reqResult.type = "timeout"

-----------------------------------------------------------------------------
(***************************************************************************)
(* Properties of handleStreamResponse                                      *)
(*                                                                         *)
(* The reference reads a whole text at once, line by line, with no buffer. *)
(***************************************************************************)

IsPrefix(a, b) == Len(a) <= Len(b) /\ SubSeq(b, 1, Len(a)) = a

IsEnded == strPc \in {"returned", "closed"}

\* The line is a [DONE] frame.
IsDoneLine(line) ==
  StartsWith(Trim(line), DataPrefix) /\ Slice(Trim(line), 6) = DoneToken

\* The texts (none or one) the line carries as a data frame.
FrameText(line) ==
  IF StartsWith(Trim(line), DataPrefix) /\ ~IsDoneLine(line)
  THEN EmitData(Slice(Trim(line), 6), <<>>)
  ELSE <<>>

\* The texts of lines[i..n], in order.
RECURSIVE TextsOf(_, _, _)
TextsOf(lines, i, n) ==
  IF i > n THEN <<>> ELSE FrameText(lines[i]) \o TextsOf(lines, i + 1, n)

\* Index of the first [DONE] line among lines[1..n], n + 1 if there is none.
FirstDone(lines, n) ==
  IF \E i \in 1..n : IsDoneLine(lines[i])
  THEN CHOOSE i \in 1..n :
         IsDoneLine(lines[i]) /\ \A j \in 1..(i - 1) : ~IsDoneLine(lines[j])
  ELSE n + 1

\* The texts of the data frames of a text that precede its first [DONE].
ExpectedChunks(text) ==
  LET lines == Split(text) IN
  TextsOf(lines, 1, FirstDone(lines, Len(lines)) - 1)

\* What the reads have delivered so far, and its complete lines.
Consumed == SubSeq(stream, 1, pos)

CompleteLines(text) == SubSeq(Split(text), 1, Len(Split(text)) - 1)

DoneConsumed ==
  \E i \in 1..Len(CompleteLines(Consumed)) : IsDoneLine(CompleteLines(Consumed)[i])

\* C6: however the stream is cut into read chunks, the onChunk calls are the
\* texts of the data frames before the first [DONE], in stream order, each
\* once: at any moment a prefix of them, at the end all of them; for the
\* example of the spec they are "Hel" then "lo".
C6_ChunkingIndependent ==
  /\ IsPrefix(emitted, ExpectedChunks(stream))
  /\ IsEnded => emitted = ExpectedChunks(stream)
  /\ (IsEnded /\ stream = SpecExample) =>
       emitted = << <<"H", "e", "l">>, <<"l", "o">> >>

C6_Witness ==
  /\ stream = SpecExample
  /\ strPc = "returned"
  /\ heldBack
  /\ emitted = << <<"H", "e", "l">>, <<"l", "o">> >>

\* C7: as soon as the reads have delivered a complete [DONE] line the call has
\* returned, having called onChunk for the frames before that line only (not
\* for frames after it in the same chunk), and from then on nothing is read
\* and onChunk is not called.
C7_ReturnedAtDone ==
  DoneConsumed =>
    /\ strPc = "returned"
    /\ released
    /\ LET lines == CompleteLines(Consumed) IN
       emitted = TextsOf(lines, 1, FirstDone(lines, Len(lines)) - 1)

C7_StopsAtDone ==
  /\ []C7_ReturnedAtDone
  /\ [][strPc = "returned" => UNCHANGED <<pos, emitted, buffer, strPc>>]_vars

\* a frame with text follows the [DONE] line in the chunk that delivered it,
\* and more of the stream was never read
C7_Witness ==
  /\ strPc = "returned"
  /\ pos < Len(stream)
  /\ LET lines == CompleteLines(Consumed) IN
     \E i \in 1..Len(lines) :
       /\ i > FirstDone(lines, Len(lines))
       /\ FrameText(lines[i]) # <<>>

\* C8: when the upstream closes while the buffer holds a last data frame
\* without newline (not [DONE]), its text is delivered once, after the texts of
\* all complete lines; while reading, exactly the complete lines have been
\* delivered and the partial line is in the buffer.
C8_FinalFrameFlushed ==
  /\ strPc = "reading" =>
       /\ buffer = Split(Consumed)[Len(Split(Consumed))]
       /\ emitted = TextsOf(CompleteLines(Consumed), 1, Len(CompleteLines(Consumed)))
  /\ strPc = "closed" =>
       LET lines == Split(stream)
           last  == lines[Len(lines)]
       IN FrameText(last) # <<>> =>
            /\ Len(emitted) >= 1
            /\ <<emitted[Len(emitted)]>> = FrameText(last)
            /\ SubSeq(emitted, 1, Len(emitted) - 1) =
                 TextsOf(lines, 1, Len(lines) - 1)

C8_Witness ==
  /\ strPc = "closed"
  /\ heldBack
  /\ Len(emitted) >= 2
  /\ FrameText(Split(stream)[Len(Split(stream))]) = <<emitted[Len(emitted)]>>

-----------------------------------------------------------------------------
(***************************************************************************)
(* Properties of ChatStateManager                                          *)
(***************************************************************************)

\* The messages stored for a session id; none for an id not in the store.
StoredMessages(ss, id) ==
  IF FindIndex(ss, id) = 0 THEN <<>> ELSE SessionOf(ss, id).messages

\* The position of the message with the given id in a message list.
PositionOf(ms, messageId) == CHOOSE k \in 1..Len(ms) : ms[k].id = messageId

\* r holds the messages of ms, each once, non-decreasing by timestamp, those
\* of one timestamp in the order they have in ms.
IsStableSortOf(r, ms) ==
  /\ Len(r) = Len(ms)
  /\ \A k \in 1..Len(ms) : \E j \in 1..Len(r) : r[j] = ms[k]
  /\ \A j \in 1..(Len(r) - 1) : r[j].timestamp <= r[j + 1].timestamp
  /\ \A j \in 1..(Len(r) - 1) :
       r[j].timestamp = r[j + 1].timestamp =>
         PositionOf(ms, r[j].id) < PositionOf(ms, r[j + 1].id)

\* C11: in every reachable store and for every session id, getMessages
\* returns the stored messages of that session, each once, non-decreasing by
\* timestamp with messages of one timestamp in insertion order, and leaves
\* the store as it was.
C11_GetMessagesSorted ==
  \A id \in Targets :
    /\ IsStableSortOf(GetMessages(sessions, id).result, StoredMessages(sessions, id))
    /\ GetMessages(sessions, id).sessions = sessions

\* C11 witness: after a loadState and an addMessage a session stores four
\* messages out of timestamp order, two of them of one timestamp, and
\* getMessages returns them in another order than the stored one.
C11_Witness ==
  /\ call.op = "addMessage" /\ ret
  /\ \E id \in Ids(sessions) :
       LET ms == StoredMessages(sessions, id) IN
       /\ Len(ms) = 4
       /\ \E j, k \in 1..Len(ms) : j < k /\ ms[j].timestamp = ms[k].timestamp
       /\ GetMessages(sessions, id).result # ms

\* The step is a call of the named operation (every call other than
\* createSession takes one of opsLeft).
Called(op) == opsLeft' = opsLeft - 1 /\ call'.op = op

C13_DeleteMovesToMostRecent ==
  [][Called("deleteSession") =>
       IF call'.id \notin Ids(sessions)
       THEN ret' = FALSE /\ UNCHANGED <<sessions, currentSessionId>>
       ELSE IF call'.id # currentSessionId
       THEN UNCHANGED currentSessionId
       ELSE IF sessions' = <<>>
       THEN currentSessionId' = NoId
       ELSE /\ currentSessionId' = sessions'[Len(sessions')].id
            /\ \A j \in 1..Len(sessions') :
                 sessions'[j].createdAt <= sessions'[Len(sessions')].createdAt]_vars

\* C14 (as claimed): loadState given a current session id that matches no
\* loaded session (an unknown id, or null) makes the first loaded session
\* current, or null if the loaded list is empty.
C14_LoadStateFallsBackToFirst ==
  [][(Called("loadState") /\ call'.id \notin Ids(sessions')) =>
       currentSessionId' = IF sessions' = <<>> THEN NoId ELSE sessions'[1].id]_vars

\* C15: exportState followed by loadState on a new manager gives the same
\* current session id and the same sessions in the same order, each with the
\* same model id, messages and context items.
C15_ExportLoadRoundTrip ==
  LET exported == ExportState(sessions, currentSessionId)
      loaded == LoadedState(exported.sessions, exported.currentSessionId)
  IN /\ loaded.sessions = sessions
     /\ loaded.currentSessionId = currentSessionId

\* C15 witness: a store built by createSession, addMessage and addContextItem
\* alone: two created sessions, the current one is not the first of the array
\* and holds a message and a context item.
C15_Witness ==
  /\ Len(sessions) = 2
  /\ currentSessionId = sessions[2].id
  /\ Ids(sessions) \subseteq 1..(nextSessionId - 1)
  /\ Len(sessions[2].messages) = 1
  /\ Len(sessions[2].contextItems) = 1
  /\ opsLeft = MaxDeepOps - 2

\* The calls that change a stored session.
MutationOps ==
  {"addMessage", "addContextItem", "removeContextItem", "setSessionModel", "clearSession"}

C16_UpdatedAtAfterCreatedAt ==
  \A i \in 1..Len(sessions) : sessions[i].createdAt <= sessions[i].updatedAt

C16_MutationStep ==
  /\ \A op \in MutationOps :
       Called(op) =>
         IF ret'
         THEN /\ call'.id \in Ids(sessions) /\ call'.id \in Ids(sessions')
              /\ SessionOf(sessions', call'.id).updatedAt = now'
              /\ SessionOf(sessions', call'.id).updatedAt
                   >= SessionOf(sessions, call'.id).updatedAt
         ELSE sessions' = sessions
  /\ ~Called("loadState") =>
       \A id \in Ids(sessions) \cap Ids(sessions') :
         SessionOf(sessions', id).updatedAt # SessionOf(sessions, id).updatedAt =>
           /\ \E op \in MutationOps : Called(op)
           /\ call'.id = id
           /\ ret'

\* C16: a successful addMessage, addContextItem, removeContextItem,
\* setSessionModel or clearSession sets the updatedAt of its session to the
\* clock value, which is not below the value it had; updatedAt is never below
\* createdAt; a failed call changes no session; no call on a session changes
\* the updatedAt of another session (loadState replaces the sessions
\* wholesale and is not such a call).
C16_UpdatedAtBumped == []C16_UpdatedAtAfterCreatedAt /\ [][C16_MutationStep]_vars

\* C16 witness: a removeContextItem call succeeded after the clock advanced;
\* its session has updatedAt at the clock value, above createdAt.
C16_Witness ==
  /\ call.op = "removeContextItem" /\ ret
  /\ call.id \in Ids(sessions)
  /\ SessionOf(sessions, call.id).updatedAt = now
  /\ SessionOf(sessions, call.id).createdAt < now

\* C9 (as claimed): when createSession returns, the session it returns is in
\* the store with no messages and is the current session, whatever the store
\* held before (also MAX_SESSIONS sessions whose updatedAt is the clock value
\* of the call).  A step that takes a session id is a createSession call, and
\* the id taken is that of the session returned.
C9_CreatedSessionIsCurrent ==
  [][nextSessionId' = nextSessionId + 1 =>
       /\ nextSessionId \in Ids(sessions')
       /\ SessionOf(sessions', nextSessionId).messages = <<>>
       /\ currentSessionId' = nextSessionId]_vars

\* C10 (as claimed): the store never holds more than MAX_SESSIONS sessions.
C10_AtMostMaxSessions == Len(sessions) <= MAX_SESSIONS

-----------------------------------------------------------------------------
(***************************************************************************)
(* Properties of SettingsManager                                           *)
(***************************************************************************)

\* The step is a call of the named operation of SettingsManager.
SettingsCalled(op) ==
  settingsOpsLeft' = settingsOpsLeft - 1 /\ settingsCall'.op = op

\* The ids of the models marked default.
DefaultIds(ms) == {ms[i].id : i \in {j \in 1..Len(ms) : ms[j].isDefault}}

\* The inputs the four calls reject.
C17_Rejected ==
  /\ \A p \in ProviderInputs :
       (AddProvider(p) /\ ~ValidateProvider(p)) => ~settingsRet'
  /\ \A id \in ProviderTargets, u \in ProviderUpdates :
       (/\ UpdateProvider(id, u)
        /\ \/ id \notin Ids(providers)
           \/ ~ValidateProvider(MergeProvider(SessionOf(providers, id), u)))
         => ~settingsRet'
  /\ \A m \in ModelInputs :
       (AddModel(m) /\ (~ValidateModel(m) \/ m.providerId \notin Ids(providers)))
         => ~settingsRet'
  /\ \A id \in ModelTargets, u \in ModelUpdates :
       (/\ UpdateModel(id, u)
        /\ \/ id \notin Ids(models)
           \/ ~ValidateModel(MergeModel(SessionOf(models, id), u))
           \/ ("providerId" \in DOMAIN u /\ u.providerId \notin Ids(providers)))
         => ~settingsRet'

\* C17: every addProvider, updateProvider, addModel or updateModel call that
\* is rejected (by validation, by an unknown target id, by a providerId of no
\* existing provider) returns success = false, and every such call that
\* returns success = false leaves the providers and the models, all
\* isDefault flags included, as they were.
C17_FailedCallChangesNothing ==
  [][/\ C17_Rejected
     /\ \A op \in {"addProvider", "updateProvider", "addModel", "updateModel"} :
          (SettingsCalled(op) /\ ~settingsRet') => UNCHANGED <<providers, models>>]_vars

\* C17 witness: an updateModel call on a model of the registry was rejected
\* while another model is the default.
C17_Witness ==
  /\ settingsCall.op = "updateModel" /\ ~settingsRet
  /\ settingsCall.id \in Ids(models)
  /\ DefaultIds(models) # {}
  /\ settingsCall.id \notin DefaultIds(models)

\* C18: deleteProvider of a provider of the registry returns true and removes
\* that provider and exactly the models whose providerId is its id, the rest
\* staying as they were and in order; deleteProvider of another id returns
\* false and changes nothing.
C18_DeleteProviderCascade ==
  [][SettingsCalled("deleteProvider") =>
       IF settingsCall'.id \in Ids(providers)
       THEN /\ settingsRet'
            /\ providers' = SelectSeq(providers, LAMBDA p : p.id # settingsCall'.id)
            /\ models' = SelectSeq(models, LAMBDA m : m.providerId # settingsCall'.id)
       ELSE /\ ~settingsRet'
            /\ UNCHANGED <<providers, models>>]_vars

\* C18 witness: two providers with one model each were added and one provider
\* was deleted: one provider and one model remain.
C18_Witness ==
  /\ settingsCall.op = "deleteProvider" /\ settingsRet
  /\ nextSettingsId = 5
  /\ Len(providers) = 1
  /\ Len(models) = 1

\* C19: at most one model of the registry has isDefault = true.
C19_AtMostOneDefault == Cardinality(DefaultIds(models)) <= 1

\* C19 witness: a third model was added as the default.
C19_Witness ==
  /\ settingsCall.op = "addModel" /\ settingsRet
  /\ Len(models) = 3
  /\ models[3].isDefault

\* C20: a successful setDefaultModel(id) leaves the model with that id as the
\* only one with isDefault = true, and getDefaultModel returns it;
\* setDefaultModel of an id that is not in the registry returns false and
\* leaves the models, so an existing default, as they were.
C20_SetDefaultModel ==
  [][SettingsCalled("setDefaultModel") =>
       IF settingsCall'.id \in Ids(models)
       THEN /\ settingsRet'
            /\ DefaultIds(models') = {settingsCall'.id}
            /\ GetDefaultModel(models') = settingsCall'.id
       ELSE /\ ~settingsRet'
            /\ models' = models]_vars

\* C20 witness: setDefaultModel succeeded on the first of two models.
C20_Witness ==
  /\ settingsCall.op = "setDefaultModel" /\ settingsRet
  /\ Len(models) = 2
  /\ settingsCall.id = models[1].id
  /\ GetDefaultModel(models) = models[1].id

\* A model is available: its provider is in the registry and enabled.
IsAvailable(ps, m) == \E i \in 1..Len(ps) : ps[i].id = m.providerId /\ ps[i].enabled

\* C21: getAvailableModels returns exactly the models whose provider is in
\* the registry and enabled, in registry order; toggling a provider changes
\* which of its models are returned, and toggling it a second time gives the
\* result of before.
C21_AvailableModels ==
  /\ GetAvailableModels(providers, models)
       = SelectSeq(models, LAMBDA m : IsAvailable(providers, m))
  /\ \A i \in 1..Len(providers) :
       /\ GetAvailableModels(Toggled(Toggled(providers, i), i), models)
            = GetAvailableModels(providers, models)
       /\ \A k \in 1..Len(models) :
            models[k].providerId = providers[i].id =>
              (IsAvailable(Toggled(providers, i), models[k])
                 <=> ~IsAvailable(providers, models[k]))

\* C21 witness: after a toggleProvider call the registry holds two models
\* and only one of them is available.
C21_Witness ==
  /\ settingsCall.op = "toggleProvider" /\ settingsRet
  /\ Len(models) = 2
  /\ Len(GetAvailableModels(providers, models)) = 1

\* C22: the providerId of every stored model is the id of a provider of the
\* registry.
C22_ReferentialIntegrity ==
  \A k \in 1..Len(models) : models[k].providerId \in Ids(providers)

\* C22 witness: an updateModel call succeeded on the only model, which
\* references the second of two providers.
C22_Witness ==
  /\ settingsCall.op = "updateModel" /\ settingsRet
  /\ Len(providers) = 2
  /\ Len(models) = 1
  /\ settingsCall.id = models[1].id
  /\ models[1].providerId = providers[2].id


-----------------------------------------------------------------------------
(***************************************************************************)
(* Properties of makeRequest: the backoff delays                           *)
(***************************************************************************)

\* The delays of one call: delay k follows the failed attempt k, a call that
\* has ended made one attempt more than it waited, and a wait is pending
\* only after an attempt that has settled.
C26_Delays ==
  /\ Len(delayLog) <= 2
  /\ \A k \in 1..Len(delayLog) :
       /\ delayLog[k] = IF k = 1 THEN 1000 ELSE 2000
       /\ k <= Len(fetchLog)
       /\ ~(fetchLog[k].kind = "response" /\ Ok(fetchLog[k].status))
       /\ TypeOfOutcome(fetchLog[k]) \notin {"auth", "rate_limit"}
  /\ reqPc = "delay" => (Len(delayLog) = fetchCount /\ Len(fetchLog) = fetchCount)
  /\ reqPc = "fetch" => Len(delayLog) = fetchCount - 1
  /\ IsDone => Len(delayLog) = fetchCount - 1

\* A fetch after the first starts only in a step taken after the delay that
\* follows the attempt before it has elapsed.
C26_FetchAfterDelay ==
  (fetchCount' = fetchCount + 1 /\ fetchCount >= 1) =>
    /\ reqPc = "loop"
    /\ Len(delayLog) = fetchCount
    /\ UNCHANGED delayLog

\* C26: between attempts makeRequest waits BACKOFF_DELAYS[attempt]: 1000 ms
\* after the first failed attempt and 2000 ms after the second; the next
\* fetch never starts before the delay has elapsed; there is no delay after
\* the final failed attempt nor before an error that is not retried is
\* thrown, so one call waits at most twice.
C26_BackoffDelays == []C26_Delays /\ [][C26_FetchAfterDelay]_vars

\* Three failed attempts with both waits between them, none after the third.
C26_Witness ==
  /\ reqPc = "thrown"
  /\ fetchLog = <<Response(500), Rejection("AbortError"), Response(503)>>
  /\ delayLog = <<1000, 2000>>

-----------------------------------------------------------------------------
(***************************************************************************)
(* Properties of handleStreamResponse: lines that are no frame             *)
(***************************************************************************)

\* A frame, a data line whose payload is cut short, a data line with an
\* object that carries no text, a comment line, and a last frame.
MalformedStream ==
  Frame("T", <<"l">>) \o <<NL>> \o DataPrefix \o <<"{", "C", "H", NL>> \o
    DataPrefix \o <<"{", "}", NL>> \o <<":", SP, "H", NL>> \o
    Frame("C", <<"o">>)

\* A whitespace-only line, or two empty lines, before a frame.
BlankLineStreams ==
  { <<SP, NL>> \o Frame("C", <<"H">>) \o <<NL>>,
    <<NL, NL>> \o Frame("C", <<"H">>) \o <<NL>> }

\* The length of the part of MalformedStream up to the newline of its data
\* line with the cut payload.
MalformedEnd == Len(Frame("T", <<"l">>)) + 1 + Len(DataPrefix) + 4

\* C27: a complete 'data: ' line whose payload fails JSON parsing is skipped
\* without ending the read loop and without an onChunk call, and the valid
\* frames after it are still delivered in order; lines that do not start with
\* 'data: ' and blank lines are ignored.
C27_MalformedSkipped ==
  /\ stream = MalformedStream =>
       /\ strPc # "returned"
       /\ IsPrefix(emitted, << <<"l">>, <<"o">> >>)
       /\ (pos >= MalformedEnd /\ strPc = "reading") => emitted = << <<"l">> >>
       /\ strPc = "closed" => emitted = << <<"l">>, <<"o">> >>
  /\ stream \in BlankLineStreams =>
       /\ strPc # "returned"
       /\ IsPrefix(emitted, << <<"H">> >>)
       /\ pos = Len(stream) => emitted = << <<"H">> >>

\* The stream with the cut payload was read to its end, in reads of which
\* one ended inside a line, and both frames around the skipped lines arrived.
C27_Witness ==
  /\ stream = MalformedStream
  /\ strPc = "closed"
  /\ heldBack
  /\ emitted = << <<"l">>, <<"o">> >>

-----------------------------------------------------------------------------
(***************************************************************************)
(* Properties of ChatStateManager: pruning, the pointer, addMessage        *)
(***************************************************************************)

\* The greatest updatedAt of a non-empty session list.
MaxUpdatedAt(ss) ==
  CHOOSE t \in {ss[i].updatedAt : i \in 1..Len(ss)} :
    \A i \in 1..Len(ss) : ss[i].updatedAt <= t

\* C28: when createSession makes the session count exceed MAX_SESSIONS, the
\* survivors are exactly MAX_SESSIONS sessions, each a session of before or
\* the new one; no evicted session has a strictly greater updatedAt than a
\* survivor; the pointer refers to a stored session afterwards, and when the
\* session that was current (before the call, or the new one that the call
\* made current) is evicted, to a survivor of the greatest updatedAt.
C28_PruneKeepsMostRecent ==
  [][(nextSessionId' = nextSessionId + 1 /\ Len(sessions) + 1 > MAX_SESSIONS) =>
       LET created == nextSessionId
           evictedOld == {i \in 1..Len(sessions) : sessions[i].id \notin Ids(sessions')}
       IN /\ Len(sessions') = MAX_SESSIONS
          /\ \A k \in 1..Len(sessions') :
               \/ sessions'[k].id = created /\ sessions'[k].updatedAt = now'
               \/ \E i \in 1..Len(sessions) : sessions'[k] = sessions[i]
          /\ \A k, l \in 1..Len(sessions') : k # l => sessions'[k].id # sessions'[l].id
          /\ \A i \in evictedOld, k \in 1..Len(sessions') :
               sessions[i].updatedAt <= sessions'[k].updatedAt
          /\ created \notin Ids(sessions') =>
               \A k \in 1..Len(sessions') : now' <= sessions'[k].updatedAt
          /\ currentSessionId' \in Ids(sessions')
          /\ (created \notin Ids(sessions') \/ currentSessionId \notin Ids(sessions') \cup {NoId}) =>
               SessionOf(sessions', currentSessionId').updatedAt = MaxUpdatedAt(sessions')
     ]_vars

\* The eleventh session was created after ten others at a later clock value:
\* the session that was current, the tenth, was evicted and the new one is
\* first in the store and current.
C28_Witness ==
  /\ call.op = "createSession"
  /\ call.id = MAX_SESSIONS + 1
  /\ opsLeft = MaxOps
  /\ Len(sessions) = MAX_SESSIONS
  /\ MAX_SESSIONS \notin Ids(sessions)
  /\ sessions[1].id = MAX_SESSIONS + 1
  /\ currentSessionId = MAX_SESSIONS + 1

\* C29 (as claimed): in every state reachable from a constructed manager the
\* current pointer is null or the id of a session of the store.
C29_PointerInStore == currentSessionId = NoId \/ currentSessionId \in Ids(sessions)

\* C30: a successful addMessage(sessionId, m) changes nothing except
\* appending exactly one new message, with m's role and content, at the end
\* of that session's list and setting that session's updatedAt: the messages
\* the session had keep their id, role, content, timestamp and position,
\* every other session is unchanged, and the current pointer is unchanged.
C30_AddMessageAppendsOnly ==
  [][(Called("addMessage") /\ ret') =>
       LET i  == FindIndex(sessions, call'.id)
           ms == sessions[i].messages
           ns == sessions'[i].messages
       IN /\ i # 0
          /\ Len(sessions') = Len(sessions)
          /\ \A j \in 1..Len(sessions) : j # i => sessions'[j] = sessions[j]
          /\ Len(ns) = Len(ms) + 1
          /\ \A k \in 1..Len(ms) : ns[k] = ms[k]
          /\ [role |-> ns[Len(ns)].role, content |-> ns[Len(ns)].content] \in MessageInputs
          /\ \A k \in 1..Len(ms) : ns[Len(ns)].id # ms[k].id
          /\ [sessions'[i] EXCEPT !.messages = ms, !.updatedAt = sessions[i].updatedAt]
               = sessions[i]
          /\ sessions'[i].updatedAt = now'
          /\ currentSessionId' = currentSessionId
     ]_vars

\* A second message was added to a session that is not the current one,
\* beside another session.
C30_Witness ==
  /\ call.op = "addMessage" /\ ret
  /\ Len(sessions) = 2
  /\ call.id # currentSessionId
  /\ currentSessionId \in Ids(sessions)
  /\ Len(StoredMessages(sessions, call.id)) = 2
  /\ StoredMessages(sessions, call.id)[2].id = nextItemId - 1
  /\ StoredMessages(sessions, call.id)[1].role = "assistant"

-----------------------------------------------------------------------------
(***************************************************************************)
(* Properties of LiveSelectionManager                                      *)
(***************************************************************************)

\* The step is a call of `op` on the LiveSelectionManager.
LiveCalled(op) == liveOpsLeft' = liveOpsLeft - 1 /\ liveCall'.op = op

\* The empty and the whitespace-only contents.
BlankContents == {<<>>, <<" ">>, <<" ", "\t">>, <<NL, " ">>}

\* What clearSelection() does: the slot becomes empty, and the registered
\* change callback is invoked once if the slot held a selection, not at all
\* otherwise.
ClearsSlot ==
  /\ currentSelection' = NoSelection
  /\ onChangeCallback' = onChangeCallback
  /\ notifyCount' =
       IF currentSelection # NoSelection /\ onChangeCallback
       THEN notifyCount + 1
       ELSE notifyCount

\* C23: setSelection with empty or whitespace-only content behaves exactly
\* like clearSelection: the slot becomes empty, and the change callback (the
\* one registered with setOnChangeCallback) fires exactly once if a selection
\* existed before the call and not at all if the slot was already empty.
C23_BlankSetSelectionClears ==
  [][ /\ LiveCalled("clearSelection") => ClearsSlot
      /\ (LiveCalled("setSelection") /\ liveCall'.content \in BlankContents) => ClearsSlot
    ]_vars

\* A whitespace-only setSelection has cleared a selection and the callback
\* fired for it: once for the selection set before, once for the clearing.
C23_Witness ==
  /\ liveCall.op = "setSelection"
  /\ liveCall.content = <<" ", "\t">>
  /\ currentSelection = NoSelection
  /\ onChangeCallback
  /\ notifyCount = 2
  /\ liveOpsLeft = MaxLiveOps - 2

-----------------------------------------------------------------------------
(***************************************************************************)
(* Properties of handleStreamResponse: how it ends                         *)
(***************************************************************************)

\* The lock is held while the call reads and was released once when the
\* call has ended, however it ended.
C34_ReleasedOnce ==
  /\ strPc = "reading" => (releaseCount = 0 /\ ~released)
  /\ strPc \in {"returned", "closed", "thrown"} => (releaseCount = 1 /\ released)

\* The call ends in one of three ways: the read that follows the last
\* character reports done; the characters consumed so far hold a complete
\* [DONE] line, the read that completed it being the last; a read rejects.
\* A call that has ended does nothing more.
C34_EndStep ==
  /\ (strPc = "reading" /\ strPc' # "reading") =>
       \/ /\ strPc' = "closed"
          /\ pos = Len(stream) /\ pos' = pos
          /\ ~DoneConsumed
       \/ /\ strPc' = "returned"
          /\ pos' > pos
          /\ ~DoneConsumed /\ DoneConsumed'
       \/ /\ strPc' = "thrown"
          /\ UNCHANGED <<stream, pos, buffer, emitted>>
  /\ strPc \in {"returned", "closed", "thrown"} => UNCHANGED streamVars

-----------------------------------------------------------------------------
(***************************************************************************)
(* Properties of the send handlers of AIChatSidebarPlugin                  *)
(***************************************************************************)

\* The assistant messages of a store, each with the id of its session.
AssistantMessages(ss) ==
  UNION {{<<ss[i].id, ss[i].messages[k].id>> :
            k \in {j \in 1..Len(ss[i].messages) : ss[i].messages[j].role = "assistant"}} :
         i \in 1..Len(ss)}

\* The user message of a send that passed the lookups is stored in the
\* session of the send, as long as that session is in the store.
C24_UserMessageKept ==
  \A s \in 1..MaxSends :
    (sends[s].pc \in {"calling", "failed", "done"} /\ sends[s].sessionId \in Ids(sessions)) =>
      \E k \in 1..Len(StoredMessages(sessions, sends[s].sessionId)) :
        /\ StoredMessages(sessions, sends[s].sessionId)[k].id = sends[s].userMessageId
        /\ StoredMessages(sessions, sends[s].sessionId)[k].role = "user"

\* What the steps of a send do to the messages.
C24_SendStep ==
  /\ \A s \in 1..MaxSends :
       /\ (sends[s].pc = "idle" /\ sends'[s].pc = "calling") =>
            LET sid == sends'[s].sessionId
                ms  == StoredMessages(sessions', sid)
            IN /\ sid \in Ids(sessions')
               /\ Len(ms) = Len(StoredMessages(sessions, sid)) + 1
               /\ ms[Len(ms)].id = sends'[s].userMessageId
               /\ ms[Len(ms)].role = "user"
               /\ ms[Len(ms)].content = UserContent
               /\ \E k \in 1..Len(sends'[s].messages) :
                    sends'[s].messages[k] = ms[Len(ms)]
               /\ AssistantMessages(sessions') = AssistantMessages(sessions)
       /\ (sends[s].pc = "calling" /\ sends'[s].pc = "failed") =>
            /\ sessions' = sessions
            /\ currentSessionId' = currentSessionId
            /\ savedData' = savedData
  /\ ~(AssistantMessages(sessions') \subseteq AssistantMessages(sessions)) =>
       \E s \in 1..MaxSends :
         LET sid == sends[s].sessionId
             ms  == StoredMessages(sessions', sid)
         IN /\ sends[s].pc = "calling" /\ sends'[s].pc = "done"
            /\ AssistantMessages(sessions') \ AssistantMessages(sessions)
                 = {<<sid, ms[Len(ms)].id>>}
            /\ Len(ms) = Len(StoredMessages(sessions, sid)) + 1
            /\ \E k \in 1..(Len(ms) - 1) : ms[k].id = sends[s].userMessageId

\* C24: in handleSendMessage and handleSendMessageStream the user message is
\* appended to the session before the provider call starts (the call is
\* handed a message list that holds it); an assistant message is appended
\* only by the step in which a provider call has completed successfully, one
\* per call, behind the user message of that call; when the provider call
\* throws, the step changes no session, and the user message stays stored.
C24_UserBeforeAssistantAfter == []C24_UserMessageKept /\ [][C24_SendStep]_vars

\* Two sends in one session: the streamed one failed, the other one
\* completed; both user messages are stored and one assistant message.
C24_Witness ==
  /\ sends[1].pc = "failed" /\ sends[1].streaming
  /\ sends[2].pc = "done" /\ ~sends[2].streaming
  /\ Len(sessions) = 1
  /\ sends[1].sessionId = sessions[1].id /\ sends[2].sessionId = sessions[1].id
  /\ Len(sessions[1].messages) = 3
  /\ sessions[1].messages[1].id = sends[1].userMessageId
  /\ sessions[1].messages[2].id = sends[2].userMessageId
  /\ sessions[1].messages[3].role = "assistant"

\* An item built from the live selection slot.
IsLiveItem(item) == item.id[1] = "live-selection"

NoLiveItem(items) == \A k \in 1..Len(items) : ~IsLiveItem(items[k])

\* No live-selection item among the items of the ContextManager, among the
\* context items of a session, or in the blob handed to saveData (which has
\* no field for the slot either); the list of a request holds at most one,
\* in front of the stored items.
C25_NotStored ==
  /\ NoLiveItem(ctxItems)
  /\ \A i \in 1..Len(sessions) : NoLiveItem(sessions[i].contextItems)
  /\ \A b \in 1..Len(savedData) :
       /\ DOMAIN savedData[b] = {"providers", "models", "sessions", "currentSessionId"}
       /\ \A i \in 1..Len(savedData[b].sessions) :
            NoLiveItem(savedData[b].sessions[i].contextItems)
  /\ \A s \in 1..MaxSends :
       \A k \in 2..Len(sends[s].contextItems) : ~IsLiveItem(sends[s].contextItems[k])

\* The request of a send that starts holds the item of the slot as it is at
\* that moment, if it holds a selection, and the stored items behind it; the
\* stored items stay as they are.
C25_RequestStep ==
  \A s \in 1..MaxSends :
    (sends[s].pc = "idle" /\ sends'[s].pc = "calling") =>
      /\ ctxItems' = ctxItems
      /\ IF currentSelection = NoSelection
         THEN sends'[s].contextItems = ctxItems
         ELSE /\ Len(sends'[s].contextItems) = Len(ctxItems) + 1
              /\ IsLiveItem(sends'[s].contextItems[1])
              /\ sends'[s].contextItems[1].content = currentSelection.content
              /\ sends'[s].contextItems[1].path = currentSelection.sourcePath
              /\ sends'[s].contextItems[1].id[2] = currentSelection.timestamp
              /\ Tail(sends'[s].contextItems) = ctxItems

\* C25: no sequence of live-selection changes and sends (nor of the other
\* handlers) adds the live-selection item to a session's contextItems or to
\* the items the ContextManager stores: the item is rebuilt from the slot of
\* the LiveSelectionManager for each request, appears only in that request's
\* context list, and is absent from every state handed to the save callback.
C25_LiveSelectionNotPersisted == []C25_NotStored /\ [][C25_RequestStep]_vars

\* After a first send completed and was saved, a second request holds the
\* live-selection item in front of a stored file item.
C25_Witness ==
  /\ sends[1].pc = "done"
  /\ sends[2].pc = "calling"
  /\ savedData # <<>>
  /\ Len(ctxItems) = 1
  /\ Len(sends[2].contextItems) = 2
  /\ IsLiveItem(sends[2].contextItems[1])
  /\ sends[2].contextItems[1].content = <<"a", "b">>
  /\ sends[2].contextItems[2] = ctxItems[1]

\* C31: when a session is switched, created or deleted while a send is in
\* flight, the step in which the provider call completes successfully appends
\* the assistant reply to the session that received the user message of that
\* send, to no other session, and never drops it.
C31_ReplyAppendedToOwnSession ==
  [][\A s \in 1..MaxSends :
       (sends[s].pc = "calling" /\ sends'[s].pc = "done") =>
         LET sid == sends[s].sessionId
             ms  == StoredMessages(sessions', sid)
         IN /\ sid \in Ids(sessions')
            /\ Len(ms) > 0
            /\ ms[Len(ms)].role = "assistant"
            /\ AssistantMessages(sessions') \ AssistantMessages(sessions)
                 = {<<sid, ms[Len(ms)].id>>}]_vars

\* C33: the step that ends a successful streaming send stores exactly one
\* assistant message, in the session of the send, and its content is the
\* concatenation, in delivery order, of the chunks handed to the UI chunk
\* callback during that send (the empty text when there was none).
C33_StreamedReplyStored ==
  [][\A s \in 1..MaxSends :
       (sends[s].pc = "calling" /\ sends[s].streaming /\ sends'[s].pc = "done") =>
         LET sid == sends[s].sessionId
             ms  == StoredMessages(sessions', sid)
         IN /\ Cardinality(AssistantMessages(sessions') \ AssistantMessages(sessions)) = 1
            /\ Len(ms) = Len(StoredMessages(sessions, sid)) + 1
            /\ ms[Len(ms)].role = "assistant"
            /\ ms[Len(ms)].content = Concat(sends[s].chunks)]_vars

-----------------------------------------------------------------------------
(***************************************************************************)
(* Properties of the callers of saveData                                   *)
(***************************************************************************)

\* A step that hands a blob to saveData.
SaveStep ==
  \/ savedData' # savedData
  \/ opsLeft' < opsLeft /\ call'.op = "saveSettings"

\* C32: after any interleaving of ChatStateManager.saveState, saveSettings
\* and the sidebar-state save, the blob handed to saveData last holds the
\* session list and the current session id the ChatStateManager has at that
\* moment; a settings save or a sidebar-state save never replaces persisted
\* sessions by an older list.
C32_LastBlobHoldsSessions ==
  [][SaveStep =>
       /\ savedData'[1].sessions = sessions'
       /\ savedData'[1].currentSessionId = currentSessionId']_vars

-----------------------------------------------------------------------------
(***************************************************************************)
(* Properties of exportState and loadState between two managers            *)
(***************************************************************************)

MutatingCalls == {"addMessage", "clearSession", "setSessionModel", "addContextItem"}

\* C35: the value exportState returned is a snapshot independent of the
\* manager: once it was loaded into a second manager, a mutation made
\* through one manager (addMessage, clearSession, setSessionModel,
\* addContextItem) changes neither the sessions of the exported value nor
\* what the other manager returns for the same session id.
C35_ExportedStateIndependent ==
  [][(/\ shareCall'.op \in MutatingCalls /\ shareOpsLeft' < shareOpsLeft
      /\ exportedState # <<>>
      /\ \A k \in Managers : FindOf(k, shareCall'.id) # NoId) =>
       /\ Deref(heap', exportedState[1].sessions) = Deref(heap, exportedState[1].sessions)
       /\ \A k \in Managers \ {shareCall'.manager} :
            GetSessionOf(heap', k, shareCall'.id) = GetSessionOf(heap, k, shareCall'.id)]_vars

-----------------------------------------------------------------------------
(***************************************************************************)
(* Properties of formatRequest                                             *)
(***************************************************************************)

\* The role and the content of each message, in order.
RoleAndContent(messages) ==
  [i \in 1..Len(messages) |-> [role |-> messages[i].role, content |-> messages[i].content]]

\* The text of the synthetic message for a non-empty list of items: the
\* heading, then the blocks of the items with a rule between two of them.
RECURSIVE BlocksText(_)
BlocksText(items) ==
  LET block == <<"[">> \o Head(items).displayName \o <<"]", NL>> \o Head(items).content IN
  IF Len(items) = 1 THEN block
  ELSE block \o <<NL, NL, "---", NL, NL>> \o BlocksText(Tail(items))

ContextText(items) == <<"Context:", NL, NL>> \o BlocksText(items)

\* The contents of the system messages, each followed by the newline that
\* separates it from the next.
RECURSIVE SystemLines(_)
SystemLines(messages) ==
  IF messages = <<>> THEN <<>>
  ELSE IF Head(messages).role = "system"
       THEN <<Head(messages).content \o <<NL>> >> \o SystemLines(Tail(messages))
       ELSE SystemLines(Tail(messages))

\* The contents of the system messages joined by newlines.
SystemText(messages) ==
  LET all == Concat(SystemLines(messages)) IN SubSeq(all, 1, Len(all) - 1)

HasSystem(messages) == \E i \in 1..Len(messages) : messages[i].role = "system"

\* The non-system messages in order, assistant kept, any other role user.
RECURSIVE NonSystem(_)
NonSystem(messages) ==
  IF messages = <<>> THEN <<>>
  ELSE IF Head(messages).role = "system" THEN NonSystem(Tail(messages))
       ELSE << [role |-> IF Head(messages).role = "assistant" THEN "assistant" ELSE "user",
                content |-> Head(messages).content] >> \o NonSystem(Tail(messages))

\* The messages of the body start with one synthetic system message when
\* there are context items, and the conversation follows unchanged.
LeadingSystemMessage ==
  IF fmtInput.contextItems # <<>>
  THEN /\ Len(fmtBody.messages) = Len(fmtInput.messages) + 1
       /\ fmtBody.messages[1] =
            [role |-> "system", content |-> ContextText(fmtInput.contextItems)]
       /\ Tail(fmtBody.messages) = RoleAndContent(fmtInput.messages)
  ELSE fmtBody.messages = RoleAndContent(fmtInput.messages)

\* C36 as stated: for every provider type, the messages of the request hold
\* exactly one synthetic system-role message in front of the conversation
\* messages when there are context items, and the conversation messages
\* unchanged when there are none.
C36_LeadingSystemMessageAllTypes ==
  fmtBody # NoBody => LeadingSystemMessage

\* C36, amended: with context items, formatRequest adds exactly one synthetic
\* system message in front of the conversation before the body is built.  In
\* the openai and custom bodies (custom has the shape and the content of
\* openai) it is the first entry of messages and the conversation messages
\* follow in order; in the anthropic body, whose messages hold no system
\* entry, its content is the first part of the top-level system field,
\* followed by the conversation's system contents.  Without context items
\* nothing synthetic is added.
C36_ContextPrependedOnce ==
  fmtBody # NoBody =>
    IF fmtInput.type = "anthropic"
    THEN /\ fmtBody.messages = NonSystem(fmtInput.messages)
         /\ IF fmtInput.contextItems # <<>>
            THEN /\ "system" \in DOMAIN fmtBody
                 /\ fmtBody.system =
                      IF HasSystem(fmtInput.messages)
                      THEN ContextText(fmtInput.contextItems) \o <<NL>> \o
                             SystemText(fmtInput.messages)
                      ELSE ContextText(fmtInput.contextItems)
            ELSE IF HasSystem(fmtInput.messages)
                 THEN /\ "system" \in DOMAIN fmtBody
                      /\ fmtBody.system = SystemText(fmtInput.messages)
                 ELSE "system" \notin DOMAIN fmtBody
    ELSE /\ LeadingSystemMessage
         /\ DOMAIN fmtBody = {"model", "messages", "stream", "temperature", "max_tokens"}
         /\ fmtBody.stream = fmtInput.stream
         /\ fmtInput.type = "custom" =>
              fmtBody = FormatOpenAIRequest(FmtModel,
                          PrependContext(fmtInput.messages, fmtInput.contextItems, now),
                          fmtInput.stream)

\* A custom provider's body with two context items in front of a
\* conversation of two messages, one of them a system message.
C36_Witness ==
  /\ fmtBody # NoBody
  /\ fmtInput.type = "custom"
  /\ Len(fmtInput.contextItems) = 2
  /\ Len(fmtInput.messages) = 2
  /\ fmtInput.messages[1].role = "system"
  /\ Len(fmtBody.messages) = 3
  /\ fmtBody.messages[1].role = "system"
  /\ fmtBody.messages[2].role = "system"

\* The messages formatAnthropicRequest is handed: the synthetic message, if
\* there are context items, and the conversation.
AnthropicInput ==
  IF fmtInput.contextItems # <<>>
  THEN << [role |-> "system", content |-> ContextText(fmtInput.contextItems)] >> \o
         RoleAndContent(fmtInput.messages)
  ELSE RoleAndContent(fmtInput.messages)

\* C37: in the Anthropic-dialect body the messages array holds no
\* system-role entry and consists of all non-system messages in their
\* original order, assistant kept and every other role mapped to user; the
\* top-level system field is the contents of all system messages in order
\* joined by newlines, and is absent when there is no system message.
C37_AnthropicBody ==
  (fmtBody # NoBody /\ fmtInput.type = "anthropic") =>
    /\ \A i \in 1..Len(fmtBody.messages) : fmtBody.messages[i].role \in {"user", "assistant"}
    /\ fmtBody.messages = NonSystem(AnthropicInput)
    /\ IF HasSystem(AnthropicInput)
       THEN /\ DOMAIN fmtBody = {"model", "messages", "max_tokens", "stream", "system"}
            /\ fmtBody.system = SystemText(AnthropicInput)
       ELSE DOMAIN fmtBody = {"model", "messages", "max_tokens", "stream"}

\* An Anthropic body built from a system message and an assistant message
\* behind one context item: one message, and a system text of two parts.
C37_Witness ==
  /\ fmtBody # NoBody
  /\ fmtInput.type = "anthropic"
  /\ Len(fmtInput.contextItems) = 1
  /\ Len(fmtInput.messages) = 2
  /\ fmtInput.messages[1].role = "system"
  /\ fmtInput.messages[2].role = "assistant"
  /\ fmtBody.messages = << [role |-> "assistant", content |-> fmtInput.messages[2].content] >>
  /\ fmtBody.system = ContextText(fmtInput.contextItems) \o <<NL>> \o fmtInput.messages[1].content

-----------------------------------------------------------------------------
(***************************************************************************)
(* Properties of handleResponse                                            *)
(***************************************************************************)

\* The body has the OpenAI shape / the Anthropic shape, with some text.
HasOpenAIShape(body) == \E t \in ResponseTexts : body = OpenAIShape(t)

HasAnthropicShape(body) == \E t \in ResponseTexts : body = AnthropicShape(t)

\* C38: for a successful HTTP response handleResponse returns
\* choices[0].message.content whenever the body has the OpenAI shape and
\* content[0].text whenever it has the Anthropic shape, for every string
\* value of that field, and throws APIError 'unknown' for every other body;
\* the error is thrown after makeRequest has returned and no fetch follows it.
C38_HandleResponse ==
  /\ []((sendResult # NoSendResult) =>
          /\ reqPc = "returned"
          /\ IF HasOpenAIShape(responseBody)
             THEN sendResult = [kind |-> "returned",
                                value |-> ChoiceContent(responseBody)[1], error |-> "none"]
             ELSE IF HasAnthropicShape(responseBody)
             THEN sendResult = [kind |-> "returned",
                                value |-> ContentText(responseBody)[1], error |-> "none"]
             ELSE sendResult = [kind |-> "thrown", value |-> <<>>, error |-> "unknown"])
  /\ [][(sendResult # NoSendResult /\ sendResult' = sendResult) =>
          (fetchCount' = fetchCount /\ reqPc' = reqPc)]_vars

-----------------------------------------------------------------------------
(***************************************************************************)
(* Properties of getPreview                                                *)
(***************************************************************************)

\* C39: getPreview(maxLength) returns the full content when
\* content.length <= maxLength and otherwise a text of length exactly
\* maxLength made of the first maxLength - 3 characters followed by '...',
\* for every maxLength >= 0 and every content; the result is never longer
\* than maxLength.
C39_PreviewLength ==
  [][(preview'.called /\ liveCall'.op = "getPreview" /\ liveOpsLeft' < liveOpsLeft
        /\ currentSelection # NoSelection) =>
       LET content == currentSelection.content
           n       == preview'.maxLength
           result  == preview'.result
       IN /\ Len(result) <= n
          /\ IF Len(content) <= n
             THEN result = content
             ELSE /\ Len(result) = n
                  /\ \A i \in 1..(n - 3) : result[i] = content[i]
                  /\ \A i \in (n - 2)..n : i >= 1 => result[i] = "."]_vars
-----------------------------------------------------------------------------
(***************************************************************************)
(* Properties of ContextManager.addFolder                                  *)
(***************************************************************************)

\* The paths of the markdown files below a folder, at any depth.
RECURSIVE MarkdownPathsBelow(_)
MarkdownPathsBelow(node) ==
  IF IsFile(node)
  THEN (IF IsMarkdownFile(node.path) THEN {node.path} ELSE {})
  ELSE UNION { MarkdownPathsBelow(node.children[i]) : i \in 1..Len(node.children) }

\* The files of the call whose read has settled with the content, in the
\* order of the traversal.
RECURSIVE ReadFiles(_, _)
ReadFiles(files, reads) ==
  IF reads = <<>> THEN <<>>
  ELSE (IF Head(reads) THEN <<Head(files)>> ELSE <<>>)
       \o ReadFiles(Tail(files), Tail(reads))

\* addedItems holds one item of type 'folder' per file that was read, in
\* the order of the traversal, each with an id of its own.
AddedItemsAreReadFiles ==
  LET readFiles == ReadFiles(folderCall.files, folderCall.reads)
      addedItems == folderCall.addedItems
  IN /\ Len(addedItems) = Len(readFiles)
     /\ \A i \in 1..Len(addedItems) :
          /\ addedItems[i].type = "folder"
          /\ addedItems[i].path = readFiles[i].path
          /\ addedItems[i].content = readFiles[i].content
     /\ \A i, j \in 1..Len(addedItems) :
          addedItems[i].id = addedItems[j].id => i = j

\* A step in which a read of the call settles.
ReadStep == Len(folderCall'.reads) = Len(folderCall.reads) + 1

\* C40: addFolder reads every markdown file below the folder, at any depth,
\* once each; it adds one item for every file whose read succeeds and none
\* for a file whose read fails; a failed read leaves the store as it is and
\* does not end the call (the call throws only before its first read); the
\* list it returns is the list of the items it added to the store, in the
\* order of the traversal.
C40_AddFolderSkipsFailedReads ==
  /\ [](/\ folderCall.pc \in {"reading", "returned"} =>
            /\ { folderCall.files[i].path : i \in 1..Len(folderCall.files) }
                 = MarkdownPathsBelow(GetFolder(vault, folderCall.path)[1])
            /\ \A i, j \in 1..Len(folderCall.files) :
                 folderCall.files[i].path = folderCall.files[j].path => i = j
        /\ AddedItemsAreReadFiles
        /\ folderCall.pc = "thrown" => folderCall.reads = <<>>
        /\ folderCall.pc = "returned" =>
            /\ Len(folderCall.reads) = Len(folderCall.files)
            /\ folderCall.ret = folderCall.addedItems)
  /\ [][ReadStep =>
          LET ok == folderCall'.reads[Len(folderCall'.reads)] IN
          /\ folderCall'.pc # "thrown"
          /\ ok => /\ ctxItems' = Append(ctxItems,
                         folderCall'.addedItems[Len(folderCall'.addedItems)])
                    /\ \A i \in 1..Len(ctxItems) :
                         ctxItems[i].id # ctxItems'[Len(ctxItems')].id
          /\ ~ok => /\ ctxItems' = ctxItems
                     /\ folderCall'.addedItems = folderCall.addedItems]_vars

\* addFolder('docs') has returned three items of a folder with a subfolder:
\* the second of its four reads failed and the reads after it succeeded.
C40_Witness ==
  /\ folderCall.pc = "returned"
  /\ folderCall.path = <<"docs">>
  /\ folderCall.reads = <<TRUE, FALSE, TRUE, TRUE>>
  /\ Len(folderCall.ret) = 3
  /\ folderCall.ret[2].path = <<"docs", "/", "sub", "/", "d", ".md">>
  /\ folderCall.ret[3].displayName = <<"docs", "/", "e", ".md">>

=============================================================================
